---- MODULE Spec2Model ----
(***************************************************************************)
(* A model of the llm-sdk client library: the LLmSdk client (src/lib.rs),  *)
(* its five operations, the request encoders of src/api/*.rs and the       *)
(* remote endpoint that answers them.                                      *)
(*                                                                         *)
(* Representation.                                                         *)
(*  - A string is a sequence of tokens (each token a non-empty piece of    *)
(*    text); the empty string is << >>, concatenation and format! are \o.  *)
(*  - A byte vector is a sequence of tokens as well.                       *)
(*  - Option<T> is a sequence of length at most one: None is << >> and     *)
(*    Some(x) is <<x>>.                                                    *)
(*  - A JSON document is a function from paths (sequences of keys, an      *)
(*    array index being the key "0", "1", ...) to nodes [k, v]: k is the   *)
(*    node's kind (obj, arr, str, num, bool, null) and v its text.         *)
(***************************************************************************)
EXTENDS Integers, Sequences, FiniteSets, TLC

VARIABLES
    env,      \* the process environment: OPENAI_API_KEY, an Option<String>
    sdk,      \* the client the caller holds: [base_url, token]
    calls,    \* per caller task, its invocation of a client operation
    wreq,     \* encoder harness: the audio request being encoded
    wout      \* encoder harness: Option of the encoded multipart form

vars == <<env, sdk, calls, wreq, wout>>

-----------------------------------------------------------------------------
(* Strings and options.                                                    *)

None == << >>
Some(x) == <<x>>
is_some(o) == o # << >>
is_none(o) == o = << >>
unwrap(o) == o[1]
\* Option<String>::unwrap_or_default: the empty string for None
unwrap_or_default(o) == IF o = << >> THEN << >> ELSE o[1]
\* Option::unwrap_or
unwrap_or(o, d) == IF o = << >> THEN d ELSE o[1]
\* String::is_empty
is_empty(s) == s = << >>
\* s occurs in t as a contiguous piece
Contains(t, s) ==
    \E i \in 0..(Len(t) - Len(s)) : SubSeq(t, i + 1, i + Len(s)) = s

-----------------------------------------------------------------------------
(* JSON documents.                                                         *)

Node(k, v) == [k |-> k, v |-> v]
JStr(s) == (<< >> :> Node("str", s))
JNum(n) == (<< >> :> Node("num", <<ToString(n)>>))
JBool(b) == (<< >> :> Node("bool", <<IF b THEN "true" ELSE "false">>))
JNull == (<< >> :> Node("null", << >>))
\* an object from a set of <<key, document>> pairs with distinct keys
JObj(S) ==
    LET paths == {<< >>} \cup
                 UNION {{<<kv[1]>> \o q : q \in DOMAIN kv[2]} : kv \in S}
    IN  [p \in paths |->
            IF p = << >> THEN Node("obj", << >>)
            ELSE LET kv == CHOOSE x \in S : x[1] = Head(p)
                 IN  kv[2][Tail(p)]]
\* an array from a sequence of documents
JArr(ds) ==
    LET paths == {<< >>} \cup
                 UNION {{<<ToString(i - 1)>> \o q : q \in DOMAIN ds[i]}
                        : i \in 1..Len(ds)}
    IN  [p \in paths |->
            IF p = << >> THEN Node("arr", << >>)
            ELSE LET i == CHOOSE j \in 1..Len(ds) : ToString(j - 1) = Head(p)
                 IN  ds[i][Tail(p)]]
Has(d, p) == p \in DOMAIN d
HasKind(d, p, k) == p \in DOMAIN d /\ d[p].k = k
\* the keys (or indices) directly below p
Children(d, p) ==
    {q[Len(p) + 1] : q \in {r \in DOMAIN d :
        Len(r) = Len(p) + 1 /\ SubSeq(r, 1, Len(p)) = p}}

-----------------------------------------------------------------------------
(* reqwest's RequestBuilder, as far as the library drives it.              *)

\* Client::post
post(url) ==
    [method |-> "POST", url |-> url, auth |-> None, timeout |-> None,
     enc |-> "none", json |-> << >>, form |-> << >>]
\* RequestBuilder::json
json(rb, doc) == [rb EXCEPT !.enc = "json", !.json = doc]
\* RequestBuilder::multipart
multipart(rb, form) == [rb EXCEPT !.enc = "multipart", !.form = form]
\* RequestBuilder::bearer_auth: the header Authorization: Bearer <token>
bearer_auth(rb, token) == [rb EXCEPT !.auth = Some(<<"Bearer ">> \o token)]
\* RequestBuilder::timeout, in seconds
timeout(rb, secs) == [rb EXCEPT !.timeout = Some(secs)]

\* multipart::Part::bytes(..).file_name(..).mime_str(..)
Part_bytes(v) == [value |-> v, file_name |-> None, mime |-> None]
Part_text(v) == [value |-> v, file_name |-> None, mime |-> None]
file_name(p, n) == [p EXCEPT !.file_name = Some(n)]
mime_str(p, m) == [p EXCEPT !.mime = Some(m)]
\* Form::new, Form::part, Form::text: parts are kept in the order added
Form_new == << >>
Form_part(f, name, p) ==
    Append(f, [name |-> name, value |-> p.value,
               file_name |-> p.file_name, mime |-> p.mime])
Form_text(f, name, v) == Form_part(f, name, Part_text(v))
\* the parts of form f named name
PartsNamed(f, name) == {i \in 1..Len(f) : f[i].name = name}

\* f32::to_string; an f32 is modelled by its value in tenths (2 is 0.2)
f32_to_string(t) ==
    IF t % 10 = 0 THEN <<ToString(t \div 10)>>
    ELSE <<ToString(t \div 10), ".", ToString(t % 10)>>

-----------------------------------------------------------------------------
(* The client and the process-wide client SDK.                             *)

TIMEOUT == 30

\* LLmSdk::new
New(base_url, token) == [base_url |-> base_url, token |-> token]

\* the lazily initialised static SDK
SDK == New(<<"https://api.openai.com/v1">>, unwrap_or(env, << >>))

-----------------------------------------------------------------------------
(* Audio requests: src/api/whisper.rs and src/api/transcription.rs.        *)

WhisperResponseFormats == {"Json", "Text", "Srt", "VerboseJson", "Vtt"}
WhisperRequestTypes == {"Transcription", "Translation"}

\* strum Display, serialize_all = "snake_case"
WhisperResponseFormat_to_string(f) ==
    CASE f = "Json" -> <<"json">>
      [] f = "Text" -> <<"text">>
      [] f = "Srt" -> <<"srt">>
      [] f = "VerboseJson" -> <<"verbose_json">>
      [] f = "Vtt" -> <<"vtt">>
\* strum Display of WhisperModel / TranscriptionModel
WhisperModel_to_string(m) == CASE m = "Whisper1" -> <<"whisper-1">>

\* WhisperRequestBuilder::default()...build() with the file supplied: every
\* other field takes its #[builder(default)]
WhisperRequest_default(file) ==
    [file |-> file, model |-> "Whisper1", language |-> None, prompt |-> None,
     response_format |-> "Json", temperature |-> None,
     request_type |-> "Transcription"]
\* WhisperRequest::transcription
WhisperRequest_transcription(stream) ==
    [WhisperRequest_default(stream) EXCEPT !.request_type = "Transcription"]
\* WhisperRequest::translation
WhisperRequest_translation(stream) ==
    [WhisperRequest_default(stream) EXCEPT !.request_type = "Translation"]

\* the parts every audio form starts with
AudioFilePart(file) == mime_str(file_name(Part_bytes(file), <<"file">>), <<"audio/mp3">>)
\* an unset temperature sent as 0 instead of the empty string
TemperatureText_zero(t) == IF is_none(t) THEN <<"0">> ELSE f32_to_string(unwrap(t))
TemperatureText(t) == IF is_none(t) THEN << >> ELSE f32_to_string(unwrap(t))

\* into_form with the language part added whatever the request type
WhisperRequest_into_form_any_type(self) ==
    LET form == Form_text(Form_text(Form_text(Form_text(
                    Form_part(Form_new, "file", AudioFilePart(self.file)),
                    "model", WhisperModel_to_string(self.model)),
                    "response_format",
                    WhisperResponseFormat_to_string(self.response_format)),
                    "prompt", unwrap_or_default(self.prompt)),
                    "temperature", TemperatureText(self.temperature))
    IN  IF is_some(self.language)
        THEN Form_text(form, "language", unwrap(self.language))
        ELSE form

\* WhisperRequest::into_form
WhisperRequest_into_form(self) ==
    LET form == Form_text(Form_text(Form_text(Form_text(
                    Form_part(Form_new, "file", AudioFilePart(self.file)),
                    "model", WhisperModel_to_string(self.model)),
                    "response_format",
                    WhisperResponseFormat_to_string(self.response_format)),
                    "prompt", unwrap_or_default(self.prompt)),
                    "temperature", TemperatureText(self.temperature))
    IN  IF self.request_type = "Transcription" /\ is_some(self.language)
        THEN Form_text(form, "language", unwrap(self.language))
        ELSE form

\* TranscriptionRequest::into_form (the request has no request_type)
TranscriptionRequest_into_form(self) ==
    Form_text(Form_text(Form_text(Form_text(Form_text(
        Form_part(Form_new, "file", AudioFilePart(self.file)),
        "model", WhisperModel_to_string(self.model)),
        "response_format",
        WhisperResponseFormat_to_string(self.response_format)),
        "language", unwrap_or_default(self.language)),
        "prompt", unwrap_or_default(self.prompt)),
        "temperature", TemperatureText(self.temperature))

\* an encoder that posts every audio request to the transcription path
WhisperRequest_into_request_one_path(self) ==
    multipart(post(SDK.base_url \o <<"/audio/transcriptions">>),
              WhisperRequest_into_form(self))

\* IntoRequest for WhisperRequest
WhisperRequest_into_request(self) ==
    LET api_url == IF self.request_type = "Translation"
                   THEN SDK.base_url \o <<"/audio/translations">>
                   ELSE SDK.base_url \o <<"/audio/transcriptions">>
    IN  multipart(post(api_url), WhisperRequest_into_form(self))

\* IntoRequest for TranscriptionRequest
TranscriptionRequest_into_request(self) ==
    multipart(post(<<"https://api.openai.com/v1", "/audio/transcriptions">>),
              TranscriptionRequest_into_form(self))

-----------------------------------------------------------------------------
(* JSON requests: src/api/chat_completion.rs, create_image.rs, speech.rs,  *)
(* embedding.rs.  Each Serialize operator is the derived serde::Serialize. *)

\* an Option field without skip_serializing_if: None is written as null
Opt_or_null(key, o) == {<<key, IF is_none(o) THEN JNull ELSE unwrap(o)>>}
\* a field under #[serde(skip_serializing_if = "Option::is_none")]
\* (o holds the serialized value when the field is Some)
Opt(key, o) == IF is_none(o) THEN {} ELSE {<<key, unwrap(o)>>}
\* serde_json's rendering of an f32 given in tenths (10 is 1.0)
JF32(t) == (<< >> :> Node("num", <<ToString(t \div 10), ".", ToString(t % 10)>>))

ChatCompleteModel_wire(m) ==
    CASE m = "GPT3Turbo" -> <<"gpt-3.5-turbo-1106">>
      [] m = "GPT3TurboInstruct" -> <<"gpt-3.5-turbo-instruct">>
      [] m = "GPT4Turbo" -> <<"gpt-4-1106-preview">>
      [] m = "GPT4TurboVersion" -> <<"gpt-4-1106-vision-preview">>
      [] m = "Test" -> <<"babbage-002">>
ChatCompleteModels ==
    {"GPT3Turbo", "GPT3TurboInstruct", "GPT4Turbo", "GPT4TurboVersion", "Test"}
ChatResponseFormat_wire(f) ==
    CASE f = "Text" -> <<"text">> [] f = "Json" -> <<"json">>
ToolType_wire(t) == CASE t = "Function" -> <<"function">>

\* get_name keeping the empty name
get_name_keep_empty(name) == Some(name)
\* ChatCompletionMessage::get_name
get_name(name) == IF ~is_empty(name) THEN Some(name) ELSE None
\* ChatCompletionMessage::new_system
new_system(content, name) ==
    [variant |-> "System", content |-> Some(content), name |-> get_name(name),
     tool_calls |-> << >>, tool_call_id |-> << >>]
\* ChatCompletionMessage::new_user
new_user(content, name) ==
    [variant |-> "User", content |-> Some(content), name |-> get_name(name),
     tool_calls |-> << >>, tool_call_id |-> << >>]

FunctionCall_Serialize(f) ==
    JObj({<<"name", JStr(f.name)>>, <<"arguments", JStr(f.arguments)>>})
ToolCalls_Serialize(c) ==
    JObj({<<"id", JStr(c.id)>>, <<"type", JStr(ToolType_wire(c.type))>>,
          <<"function", FunctionCall_Serialize(c.function)>>})
\* a message written as its variant's fields alone, without the role tag
ChatCompletionMessage_Serialize_untagged(m) ==
    JObj(Opt("content", [i \in DOMAIN m.content |-> JStr(m.content[i])])
         \cup Opt("name", [i \in DOMAIN m.name |-> JStr(m.name[i])])
         \cup (IF m.tool_calls = << >> THEN {}
               ELSE {<<"tool_calls",
                       JArr([i \in DOMAIN m.tool_calls |-> ToolCalls_Serialize(m.tool_calls[i])])>>})
         \cup (IF m.variant = "Tool" THEN {<<"tool_call_id", JStr(m.tool_call_id)>>}
               ELSE {}))
\* ChatCompletionMessage: #[serde(rename_all = "snake_case", tag = "role")]
ChatCompletionMessage_Serialize(m) ==
    CASE m.variant = "System" ->
            JObj({<<"role", JStr(<<"system">>)>>,
                  <<"content", JStr(unwrap(m.content))>>}
                 \cup Opt("name", [i \in DOMAIN m.name |-> JStr(m.name[i])]))
      [] m.variant = "User" ->
            JObj({<<"role", JStr(<<"user">>)>>,
                  <<"content", JStr(unwrap(m.content))>>}
                 \cup Opt("name", [i \in DOMAIN m.name |-> JStr(m.name[i])]))
      [] m.variant = "Assistant" ->
            JObj({<<"role", JStr(<<"assistant">>)>>}
                 \cup Opt("content", [i \in DOMAIN m.content |-> JStr(m.content[i])])
                 \cup Opt("name", [i \in DOMAIN m.name |-> JStr(m.name[i])])
                 \cup (IF m.tool_calls = << >> THEN {}
                       ELSE {<<"tool_calls",
                               JArr([i \in DOMAIN m.tool_calls |-> ToolCalls_Serialize(m.tool_calls[i])])>>}))
      [] m.variant = "Tool" ->
            JObj({<<"role", JStr(<<"tool">>)>>,
                  <<"content", JStr(unwrap(m.content))>>,
                  <<"tool_call_id", JStr(m.tool_call_id)>>})

\* ToolChoice written with its fields at the top level, without the variant key
ToolChoice_Serialize_flat(c) ==
    CASE c.variant = "None" -> JStr(<<"none">>)
      [] c.variant = "Auto" -> JStr(<<"auto">>)
      [] c.variant = "Function" ->
            JObj({<<"type", JStr(ToolType_wire(c.type))>>, <<"name", JStr(c.name)>>})
\* ToolChoice: externally tagged, rename_all = "snake_case"
ToolChoice_Serialize(c) ==
    CASE c.variant = "None" -> JStr(<<"none">>)
      [] c.variant = "Auto" -> JStr(<<"auto">>)
      [] c.variant = "Function" ->
            JObj({<<"function",
                    JObj({<<"type", JStr(ToolType_wire(c.type))>>,
                          <<"name", JStr(c.name)>>})>>})
ToolChoice_None == [variant |-> "None", type |-> "Function", name |-> << >>]
ToolChoice_Auto == [variant |-> "Auto", type |-> "Function", name |-> << >>]
ToolChoice_Function(name) ==
    [variant |-> "Function", type |-> "Function", name |-> name]

\* ToSchema::to_schema for the argument types of the repository's tests: the
\* schemars document of the type
to_schema(T) ==
    CASE T = "GetWeatherArgs" ->
            JObj({<<"title", JStr(<<"GetWeatherArgs">>)>>,
                  <<"type", JStr(<<"object">>)>>,
                  <<"required", JArr(<<JStr(<<"city">>), JStr(<<"unit">>)>>)>>})
      [] T = "ExplainMoodArgs" ->
            JObj({<<"title", JStr(<<"ExplainMoodArgs">>)>>,
                  <<"type", JStr(<<"object">>)>>,
                  <<"required", JArr(<<JStr(<<"name">>)>>)>>})
\* new_function that leaves the schema out
new_function_without_schema(T, name, des) ==
    [type |-> "Function",
     function |-> [name |-> name, description |-> des, parameters |-> JObj({})]]
\* Tool::new_function::<T>
new_function(T, name, des) ==
    [type |-> "Function",
     function |-> [name |-> name, description |-> des,
                   parameters |-> to_schema(T)]]
FunctionInfo_Serialize(f) ==
    JObj({<<"description", JStr(f.description)>>, <<"name", JStr(f.name)>>,
          <<"parameters", f.parameters>>})
Tool_Serialize(t) ==
    JObj({<<"type", JStr(ToolType_wire(t.type))>>,
          <<"function", FunctionInfo_Serialize(t.function)>>})
ChatResponseFormatObject_Serialize(o) ==
    JObj({<<"type", JStr(ChatResponseFormat_wire(o.type))>>})

\* ChatCompletionRequestBuilder with only messages supplied
ChatCompletionRequest_default(messages) ==
    [messages |-> messages, model |-> "GPT3Turbo", frequency_penalty |-> None,
     max_tokens |-> None, n |-> None, presence_penalty |-> None,
     response_format |-> None, seed |-> None, stop |-> None, stream |-> None,
     temperature |-> None, top_p |-> None, tools |-> << >>,
     tool_choice |-> None, user |-> None]
ChatCompletionRequest_Serialize(r) ==
    JObj({<<"messages", JArr([i \in DOMAIN r.messages |-> ChatCompletionMessage_Serialize(r.messages[i])])>>,
          <<"model", JStr(ChatCompleteModel_wire(r.model))>>}
         \cup Opt("frequency_penalty", [i \in DOMAIN r.frequency_penalty |-> JNum(r.frequency_penalty[i])])
         \cup Opt("max_tokens", [i \in DOMAIN r.max_tokens |-> JNum(r.max_tokens[i])])
         \cup Opt("n", [i \in DOMAIN r.n |-> JNum(r.n[i])])
         \cup Opt("presence_penalty", [i \in DOMAIN r.presence_penalty |-> JNum(r.presence_penalty[i])])
         \cup Opt("response_format", [i \in DOMAIN r.response_format |-> ChatResponseFormatObject_Serialize(r.response_format[i])])
         \cup Opt("seed", [i \in DOMAIN r.seed |-> JNum(r.seed[i])])
         \cup Opt("stop", [i \in DOMAIN r.stop |-> JStr(r.stop[i])])
         \cup Opt("stream", [i \in DOMAIN r.stream |-> JBool(r.stream[i])])
         \cup Opt("temperature", [i \in DOMAIN r.temperature |-> JNum(r.temperature[i])])
         \cup Opt("top_p", [i \in DOMAIN r.top_p |-> JNum(r.top_p[i])])
         \cup (IF r.tools = << >> THEN {}
               ELSE {<<"tools", JArr([i \in DOMAIN r.tools |-> Tool_Serialize(r.tools[i])])>>})
         \cup Opt("tool_choice", [i \in DOMAIN r.tool_choice |-> ToolChoice_Serialize(r.tool_choice[i])])
         \cup Opt("user", [i \in DOMAIN r.user |-> JStr(r.user[i])]))
\* IntoRequest for ChatCompletionRequest
ChatCompletionRequest_into_request(self) ==
    json(post(SDK.base_url \o <<"/chat/completions">>),
         ChatCompletionRequest_Serialize(self))

ImageQuality_wire(q) == CASE q = "Standard" -> <<"standard">> [] q = "Hd" -> <<"hd">>
ImageResponseFormat_wire(f) ==
    CASE f = "Url" -> <<"url">> [] f = "B64Json" -> <<"b64_json">>
ImageSize_wire(z) ==
    CASE z = "Large" -> <<"1024x1024">>
      [] z = "LargeWide" -> <<"1792x1024">>
      [] z = "LargeTall" -> <<"1024x1792">>
ImageStyle_wire(y) == CASE y = "Vivid" -> <<"vivid">> [] y = "Natural" -> <<"natural">>
ImageModel_wire(m) == CASE m = "DallE3" -> <<"dall-e-3">>

\* CreateImageRequest::new
CreateImageRequest_new(prompt) ==
    [prompt |-> prompt, model |-> "DallE3", n |-> None, quality |-> None,
     response_format |-> None, size |-> None, style |-> None, user |-> None]
CreateImageRequest_Serialize(r) ==
    JObj({<<"prompt", JStr(r.prompt)>>, <<"model", JStr(ImageModel_wire(r.model))>>}
         \cup Opt("n", [i \in DOMAIN r.n |-> JNum(r.n[i])])
         \cup Opt("quality",
                [i \in DOMAIN r.quality |-> JStr(ImageQuality_wire(r.quality[i]))])
         \cup Opt("response_format",
                [i \in DOMAIN r.response_format |-> JStr(ImageResponseFormat_wire(r.response_format[i]))])
         \cup Opt("size",
                [i \in DOMAIN r.size |-> JStr(ImageSize_wire(r.size[i]))])
         \cup Opt("style",
                [i \in DOMAIN r.style |-> JStr(ImageStyle_wire(r.style[i]))])
         \cup Opt("user", [i \in DOMAIN r.user |-> JStr(r.user[i])]))
\* IntoRequest for CreateImageRequest
CreateImageRequest_into_request(self) ==
    json(post(<<"https://api.openai.com/v1", "/images/generations">>),
         CreateImageRequest_Serialize(self))

SpeechModel_wire(m) == CASE m = "Tts1" -> <<"tts-1">> [] m = "Tts1Hd" -> <<"tts-1-hd">>
SpeechVoice_wire(v) ==
    CASE v = "Alloy" -> <<"alloy">> [] v = "Echo" -> <<"echo">>
      [] v = "Fable" -> <<"fable">> [] v = "Onyx" -> <<"onyx">>
      [] v = "Nova" -> <<"nova">> [] v = "Shimmer" -> <<"shimmer">>
SpeechResponseFormat_wire(f) ==
    CASE f = "Mp3" -> <<"mp3">> [] f = "Opus" -> <<"opus">>
      [] f = "Aac" -> <<"aac">> [] f = "Flac" -> <<"flac">>
\* SpeechRequest::new
SpeechRequest_new(input) ==
    [model |-> "Tts1", input |-> input, voice |-> "Echo",
     response_format |-> "Mp3", speed |-> None]
SpeechRequest_Serialize(r) ==
    JObj({<<"model", JStr(SpeechModel_wire(r.model))>>,
          <<"input", JStr(r.input)>>,
          <<"voice", JStr(SpeechVoice_wire(r.voice))>>,
          <<"response_format", JStr(SpeechResponseFormat_wire(r.response_format))>>}
         \cup Opt("speed", [i \in DOMAIN r.speed |-> JF32(r.speed[i])]))
\* IntoRequest for SpeechRequest
SpeechRequest_into_request(self) ==
    json(post(<<"https://api.openai.com/v1", "/audio/speech">>),
         SpeechRequest_Serialize(self))

EmbeddingModel_wire(m) ==
    CASE m = "TextEmbeddingAda002" -> <<"text-embedding-ada-002">>
EmbeddingEncodingFormat_wire(f) ==
    CASE f = "FLOAT" -> <<"float">> [] f = "BASE64" -> <<"base64">>
\* EmbeddingInput: #[serde(untagged)]
EmbeddingInput_String(s) == [variant |-> "String", strings |-> <<s>>]
EmbeddingInput_StringArray(v) == [variant |-> "StringArray", strings |-> v]
EmbeddingInput_Serialize(i) ==
    IF i.variant = "String" THEN JStr(i.strings[1])
    ELSE JArr([j \in DOMAIN i.strings |-> JStr(i.strings[j])])
\* EmbeddingRequest::new
EmbeddingRequest_new(input) ==
    [input |-> input, model |-> "TextEmbeddingAda002",
     encoding_format |-> None, user |-> None]
EmbeddingRequest_Serialize(r) ==
    JObj({<<"input", EmbeddingInput_Serialize(r.input)>>,
          <<"model", JStr(EmbeddingModel_wire(r.model))>>}
         \cup Opt("encoding_format",
                [i \in DOMAIN r.encoding_format |-> JStr(EmbeddingEncodingFormat_wire(r.encoding_format[i]))])
         \cup Opt("user", [i \in DOMAIN r.user |-> JStr(r.user[i])]))
\* IntoRequest for EmbeddingRequest
EmbeddingRequest_into_request(self) ==
    json(post(<<"https://api.openai.com/v1", "/embeddings">>),
         EmbeddingRequest_Serialize(self))

-----------------------------------------------------------------------------
(* Responses: what the remote endpoint may answer, and how the library     *)
(* decodes it.                                                             *)

Statuses == {101, 200, 304, 400, 500}
\* StatusCode::is_client_error, is_server_error, is_success
is_client_error(status) == 400 <= status /\ status < 500
is_server_error(status) == 500 <= status /\ status < 600
is_success(status) == 200 <= status /\ status < 300

BodyBadRequest == <<"bad request">>
BodyTranscript == <<"The quick brown fox jumped over the lazy dog.", "\n">>
BodyWhisperJson == <<"{\"text\":\"", "The quick brown fox", "\",\"language\":\"en\"}">>
BodyAudio == <<"ID3", "\\xFF", "\\xFB">>
BodyChatJson == <<"{\"id\":\"chatcmpl-1\",\"choices\":[{\"finish_reason\":\"tool_calls\",..}],..}">>
BodyChatStop == <<"{\"id\":\"chatcmpl-2\",\"choices\":[{\"finish_reason\":\"stop\",\"message\":{\"content\":\"Hello\"}}],..}">>
BodyImageJson == <<"{\"created\":1,\"data\":[{\"url\":\"https://img\",\"revised_prompt\":\"a cat\"}]}">>
BodyEmbeddingJson == <<"{\"object\":\"list\",\"data\":[{\"index\":0,\"embedding\":[1],\"object\":\"embedding\"}],..}">>

\* Response::bytes: the body as received
Bytes(body) == body
\* Response::text: the body decoded as UTF-8, every invalid byte replaced
Text(body) ==
    [i \in 1..Len(body) |->
        IF body[i] \in {"\\xFF", "\\xFB"} THEN "\\uFFFD" ELSE body[i]]

\* serde_json's reading of the bodies above: Some(document), or None for a
\* body that is not JSON
ParseJson(body) ==
    CASE body = BodyWhisperJson ->
            Some(JObj({<<"text", JStr(<<"The quick brown fox">>)>>,
                       <<"language", JStr(<<"en">>)>>}))
      [] body = BodyChatJson ->
            Some(JObj({
                <<"id", JStr(<<"chatcmpl-1">>)>>,
                <<"choices", JArr(<<JObj({
                    <<"finish_reason", JStr(<<"tool_calls">>)>>,
                    <<"index", JNum(0)>>,
                    <<"logprobs", JNull>>,
                    <<"message", JObj({
                        <<"role", JStr(<<"assistant">>)>>,
                        <<"content", JNull>>,
                        <<"tool_calls", JArr(<<JObj({
                            <<"id", JStr(<<"call_1">>)>>,
                            <<"type", JStr(<<"function">>)>>,
                            <<"function", JObj({
                                <<"name", JStr(<<"get_weather_forecast">>)>>,
                                <<"arguments", JStr(<<"{\"city\":\"Boston\"}">>)>>})>>})>>)>>})>>})>>)>>,
                <<"created", JNum(1700000000)>>,
                <<"model", JStr(<<"gpt-3.5-turbo-1106">>)>>,
                <<"system_fingerprint", JStr(<<"fp_1">>)>>,
                <<"object", JStr(<<"chat.completion">>)>>,
                <<"usage", JObj({<<"completion_tokens", JNum(5)>>,
                                 <<"prompt_tokens", JNum(7)>>,
                                 <<"total_tokens", JNum(12)>>})>>}))
      [] body = BodyChatStop ->
            Some(JObj({
                <<"id", JStr(<<"chatcmpl-2">>)>>,
                <<"choices", JArr(<<JObj({
                    <<"finish_reason", JStr(<<"stop">>)>>,
                    <<"index", JNum(0)>>,
                    <<"logprobs", JNull>>,
                    <<"message", JObj({
                        <<"role", JStr(<<"assistant">>)>>,
                        <<"content", JStr(<<"Hello">>)>>})>>})>>)>>,
                <<"created", JNum(1700000001)>>,
                <<"model", JStr(<<"gpt-3.5-turbo-1106">>)>>,
                <<"system_fingerprint", JStr(<<"fp_1">>)>>,
                <<"object", JStr(<<"chat.completion">>)>>,
                <<"usage", JObj({<<"completion_tokens", JNum(1)>>,
                                 <<"prompt_tokens", JNum(7)>>,
                                 <<"total_tokens", JNum(8)>>})>>}))
      [] body = BodyImageJson ->
            Some(JObj({
                <<"created", JNum(1)>>,
                <<"data", JArr(<<JObj({
                    <<"url", JStr(<<"https://img">>)>>,
                    <<"revised_prompt", JStr(<<"a cat">>)>>})>>)>>}))
      [] body = BodyEmbeddingJson ->
            Some(JObj({
                <<"object", JStr(<<"list">>)>>,
                <<"data", JArr(<<JObj({
                    <<"index", JNum(0)>>,
                    <<"embedding", JArr(<<JNum(1)>>)>>,
                    <<"object", JStr(<<"embedding">>)>>})>>)>>,
                <<"model", JStr(<<"text-embedding-ada-002">>)>>,
                <<"usage", JObj({<<"prompt_tokens", JNum(2)>>,
                                 <<"total_tokens", JNum(2)>>})>>}))
      [] OTHER -> None

\* a field of type Option<String>: absent, null or a string
OptStr(d, p) == ~Has(d, p) \/ d[p].k \in {"null", "str"}
\* the nodes of d that are not null (a null Option field decodes to None)
NonNull(d) == [p \in {q \in DOMAIN d : d[q].k # "null"} |-> d[p]]
\* the nodes of d at the paths K: serde drops the fields a struct does not name
Project(d, K) == [p \in DOMAIN d \cap K |-> d[p]]

\* #[derive(Deserialize)] WhisperResponse { text }
WhisperResponse_Known(p) == p = << >> \/ p = <<"text">>
WhisperResponse_Valid(d) == HasKind(d, << >>, "obj") /\ HasKind(d, <<"text">>, "str")

\* #[derive(Deserialize)] CreateImageResponse { created, data: Vec<ImageObject> }
CreateImageResponse_Known(p) ==
    \/ p = << >>
    \/ Len(p) = 1 /\ p[1] \in {"created", "data"}
    \/ Len(p) = 2 /\ p[1] = "data"
    \/ Len(p) = 3 /\ p[1] = "data" /\ p[3] \in {"b64_json", "url", "revised_prompt"}
CreateImageResponse_Valid(d) ==
    /\ HasKind(d, << >>, "obj")
    /\ HasKind(d, <<"created">>, "num")
    /\ HasKind(d, <<"data">>, "arr")
    /\ \A i \in Children(d, <<"data">>) :
        /\ HasKind(d, <<"data", i>>, "obj")
        /\ OptStr(d, <<"data", i, "b64_json">>)
        /\ OptStr(d, <<"data", i, "url">>)
        /\ HasKind(d, <<"data", i, "revised_prompt">>, "str")

\* #[derive(Deserialize)] EmbeddingResponse { object, data, model, usage }
EmbeddingResponse_Known(p) ==
    \/ p = << >>
    \/ Len(p) = 1 /\ p[1] \in {"object", "data", "model", "usage"}
    \/ Len(p) = 2 /\ p[1] = "data"
    \/ Len(p) = 2 /\ p[1] = "usage" /\ p[2] \in {"prompt_tokens", "total_tokens"}
    \/ Len(p) = 3 /\ p[1] = "data" /\ p[3] \in {"index", "embedding", "object"}
    \/ Len(p) = 4 /\ p[1] = "data" /\ p[3] = "embedding"
EmbeddingResponse_Valid(d) ==
    /\ HasKind(d, << >>, "obj")
    /\ HasKind(d, <<"object">>, "str")
    /\ HasKind(d, <<"model">>, "str")
    /\ HasKind(d, <<"usage">>, "obj")
    /\ HasKind(d, <<"usage", "prompt_tokens">>, "num")
    /\ HasKind(d, <<"usage", "total_tokens">>, "num")
    /\ HasKind(d, <<"data">>, "arr")
    /\ \A i \in Children(d, <<"data">>) :
        /\ HasKind(d, <<"data", i>>, "obj")
        /\ (Has(d, <<"data", i, "index">>) => d[<<"data", i, "index">>].k = "num")
        /\ HasKind(d, <<"data", i, "object">>, "str")
        /\ HasKind(d, <<"data", i, "embedding">>, "arr")
        /\ \A j \in Children(d, <<"data", i, "embedding">>) :
            HasKind(d, <<"data", i, "embedding", j>>, "num")

FinishReason_wires == {<<"stop">>, <<"length">>, <<"content_filter">>, <<"tool_calls">>}
\* #[derive(Deserialize)] ChatCompletionResponse and the types below it
ChatCompletionResponse_Known(p) ==
    \/ p = << >>
    \/ Len(p) = 1 /\ p[1] \in {"id", "choices", "created", "model",
                                "system_fingerprint", "object", "usage"}
    \/ Len(p) = 2 /\ p[1] = "usage"
                  /\ p[2] \in {"completion_tokens", "prompt_tokens", "total_tokens"}
    \/ /\ Len(p) >= 2 /\ p[1] = "choices"
       /\ Len(p) >= 3 => p[3] \in {"finish_reason", "index", "message"}
       /\ Len(p) >= 4 => p[3] = "message" /\ p[4] \in {"content", "name", "tool_calls"}
       /\ Len(p) >= 5 => p[4] = "tool_calls"
       /\ Len(p) >= 6 => p[6] \in {"id", "type", "function"}
       /\ Len(p) >= 7 => p[6] = "function" /\ p[7] \in {"name", "arguments"}
       /\ Len(p) <= 7
ToolCalls_Valid(d, p) ==
    /\ HasKind(d, p, "obj")
    /\ HasKind(d, p \o <<"id">>, "str")
    /\ HasKind(d, p \o <<"type">>, "str")
    /\ d[p \o <<"type">>].v = <<"function">>
    /\ HasKind(d, p \o <<"function">>, "obj")
    /\ HasKind(d, p \o <<"function", "name">>, "str")
    /\ HasKind(d, p \o <<"function", "arguments">>, "str")
\* an AssistantMessage whose tool_calls had no #[serde(default)]
AssistantMessage_Valid_without_default(d, p) ==
    /\ HasKind(d, p, "obj")
    /\ OptStr(d, p \o <<"content">>)
    /\ OptStr(d, p \o <<"name">>)
    /\ HasKind(d, p \o <<"tool_calls">>, "arr")
    /\ \A j \in Children(d, p \o <<"tool_calls">>) :
        ToolCalls_Valid(d, p \o <<"tool_calls", j>>)
\* #[derive(Deserialize)] AssistantMessage: tool_calls may be left out
AssistantMessage_Valid(d, p) ==
    /\ HasKind(d, p, "obj")
    /\ OptStr(d, p \o <<"content">>)
    /\ OptStr(d, p \o <<"name">>)
    /\ Has(d, p \o <<"tool_calls">>) =>
        /\ d[p \o <<"tool_calls">>].k = "arr"
        /\ \A j \in Children(d, p \o <<"tool_calls">>) :
            ToolCalls_Valid(d, p \o <<"tool_calls", j>>)
ChatCompletionResponse_Valid(d) ==
    /\ HasKind(d, << >>, "obj")
    /\ HasKind(d, <<"id">>, "str")
    /\ HasKind(d, <<"created">>, "num")
    /\ HasKind(d, <<"model">>, "str")
    /\ d[<<"model">>].v \in {ChatCompleteModel_wire(m) : m \in ChatCompleteModels}
    /\ HasKind(d, <<"system_fingerprint">>, "str")
    /\ HasKind(d, <<"object">>, "str")
    /\ HasKind(d, <<"usage">>, "obj")
    /\ \A k \in {"completion_tokens", "prompt_tokens", "total_tokens"} :
        HasKind(d, <<"usage", k>>, "num")
    /\ HasKind(d, <<"choices">>, "arr")
    /\ \A i \in Children(d, <<"choices">>) :
        /\ HasKind(d, <<"choices", i>>, "obj")
        /\ HasKind(d, <<"choices", i, "finish_reason">>, "str")
        /\ d[<<"choices", i, "finish_reason">>].v \in FinishReason_wires
        /\ HasKind(d, <<"choices", i, "index">>, "num")
        /\ AssistantMessage_Valid(d, <<"choices", i, "message">>)

\* serde_json::from_slice::<T>: Some(the value of type T) or None
FromJson(T, body) ==
    LET parsed == ParseJson(body)
        d == unwrap(parsed)
        \* #[serde(default)] tool_calls: the empty Vec where the key is missing
        tool_calls == {<<"choices", i, "message", "tool_calls">> :
                            i \in Children(d, <<"choices">>)} \ DOMAIN d
    IN  IF is_none(parsed) THEN None
        ELSE CASE T = "WhisperResponse" ->
                    IF WhisperResponse_Valid(d)
                    THEN Some(NonNull(Project(d, {q \in DOMAIN d : WhisperResponse_Known(q)}))) ELSE None
               [] T = "CreateImageResponse" ->
                    IF CreateImageResponse_Valid(d)
                    THEN Some(NonNull(Project(d, {q \in DOMAIN d : CreateImageResponse_Known(q)}))) ELSE None
               [] T = "EmbeddingResponse" ->
                    IF EmbeddingResponse_Valid(d)
                    THEN Some(NonNull(Project(d, {q \in DOMAIN d : EmbeddingResponse_Known(q)}))) ELSE None
               [] T = "ChatCompletionResponse" ->
                    IF ChatCompletionResponse_Valid(d)
                    THEN Some(NonNull(Project(d, {q \in DOMAIN d : ChatCompletionResponse_Known(q)}))
                              @@ [p \in tool_calls |-> Node("arr", << >>)])
                    ELSE None

-----------------------------------------------------------------------------
(* The client: src/lib.rs.                                                 *)

\* prepare_request with the bearer header attached whatever the token
prepare_request_always_auth(self, req) ==
    timeout(bearer_auth(req, self.token), TIMEOUT)
\* prepare_request with the timeout set only on the authenticated branch
prepare_request_timeout_in_else(self, req) ==
    IF is_empty(self.token) THEN req
    ELSE timeout(bearer_auth(req, self.token), TIMEOUT)
\* prepare_request that sets no timeout
prepare_request_no_timeout(self, req) ==
    IF is_empty(self.token) THEN req ELSE bearer_auth(req, self.token)

\* LLmSdk::prepare_request, given the encoder's RequestBuilder
prepare_request(self, req) ==
    LET r == IF is_empty(self.token) THEN req ELSE bearer_auth(req, self.token)
    IN  timeout(r, TIMEOUT)

\* send_and_log: the statuses it turns into an error
IsFailure(status) == is_client_error(status) \/ is_server_error(status)
\* an error message that leaves the body text out
ApiFailed_without_text(text) == <<"API failed">>
\* anyhow!("API failed: {}", text)
ApiFailed(text) == <<"API failed: ">> \o text

\* is_json taking verbose_json for a JSON format too
whisper_is_json_or_verbose(req) == req.response_format \in {"Json", "VerboseJson"}
\* LLmSdk::whisper: let is_json = req.response_format == Json
whisper_is_json(req) == req.response_format = "Json"

NoRet == [kind |-> "none", err |-> "", msg |-> << >>, ty |-> "", val |-> << >>]
Ok(ty, val) == [kind |-> "ok", err |-> "", msg |-> << >>, ty |-> ty, val |-> val]
Err(err, msg) == [kind |-> "err", err |-> err, msg |-> msg, ty |-> "", val |-> << >>]

\* a caller task that is not inside a client operation
Idle ==
    [pc |-> "idle", op |-> "", arg |-> << >>, is_json |-> FALSE, sent |-> << >>,
     status |-> 0, body |-> << >>, decoder |-> "none", ret |-> NoRet]
\* an operation up to its first await: the prepared request goes to send()
Start(op, arg, is_json, req) ==
    [Idle EXCEPT !.pc = "send", !.op = op, !.arg = arg, !.is_json = is_json,
                 !.sent = <<req>>]

\* a send() failure answered by sending the request again
on_send_error_retry(c) == [c EXCEPT !.sent = Append(@, @[1])]
\* self.send().await?: the transport's error is returned to the caller
on_send_error(c) == [c EXCEPT !.pc = "done", !.ret = Err("transport", <<"connect">>)]

\* a decoder that hands back whatever document it could read
JsonResult_partial(c, T) ==
    LET v == FromJson(T, c.body)
        parsed == ParseJson(c.body)
    IN  [c EXCEPT !.pc = "done", !.decoder = "json",
                  !.ret = IF is_some(v) THEN Ok(T, unwrap(v))
                          ELSE IF is_some(parsed) THEN Ok(T, unwrap(parsed))
                          ELSE Err("decode", << >>)]
\* res.json::<T>().await?
JsonResult(c, T) ==
    LET v == FromJson(T, c.body)
    IN  [c EXCEPT !.pc = "done", !.decoder = "json",
                  !.ret = IF is_some(v) THEN Ok(T, unwrap(v))
                          ELSE Err("decode", << >>)]
\* res.bytes().await?
BytesResult(c) ==
    [c EXCEPT !.pc = "done", !.decoder = "bytes", !.ret = Ok("Bytes", Bytes(c.body))]
\* WhisperResponse { text: res.text().await? }
TextResult(c) ==
    [c EXCEPT !.pc = "done", !.decoder = "text",
              !.ret = Ok("WhisperResponse", JObj({<<"text", JStr(Text(c.body))>>}))]

\* what each operation does with the response send_and_log returned
Finish(c) ==
    CASE c.op = "chat_completion" -> JsonResult(c, "ChatCompletionResponse")
      [] c.op = "create_image" -> JsonResult(c, "CreateImageResponse")
      [] c.op = "speech" -> BytesResult(c)
      [] c.op = "whisper" ->
            IF c.is_json THEN JsonResult(c, "WhisperResponse") ELSE TextResult(c)
      [] c.op = "embedding" -> JsonResult(c, "EmbeddingResponse")

-----------------------------------------------------------------------------
(* Builders (#[derive(Builder)]) and serde_json::to_value / from_value.    *)

\* the first variant declared, taken for the default of every option type
Default_first_declared(T) ==
    CASE T = "ChatCompleteModel" -> "GPT3Turbo"
      [] T = "ChatResponseFormat" -> "Text"
      [] T = "ImageModel" -> "DallE3"
      [] T = "ImageQuality" -> "Standard"
      [] T = "ImageSize" -> "Large"
      [] T = "ImageStyle" -> "Vivid"
      [] T = "SpeechResponseFormat" -> "Mp3"
      [] T = "SpeechVoice" -> "Alloy"
      [] T = "SpeechModel" -> "Tts1"
      [] T = "WhisperRequestType" -> "Transcription"
      [] T \in {"WhisperResponseFormat", "TranscriptionResponseFormat"} -> "Json"
      [] T \in {"WhisperModel", "TranscriptionModel"} -> "Whisper1"
      [] T = "EmbeddingModel" -> "TextEmbeddingAda002"
      [] T = "EmbeddingEncodingFormat" -> "FLOAT"
\* Default::default() of the option types: the #[default] variant, or the
\* impl Default of the image types
Default(T) ==
    CASE T = "ChatCompleteModel" -> "GPT3Turbo"
      [] T = "ChatResponseFormat" -> "Json"
      [] T = "ImageModel" -> "DallE3"
      [] T = "ImageQuality" -> "Standard"
      [] T = "ImageSize" -> "Large"
      [] T = "ImageStyle" -> "Vivid"
      [] T = "SpeechResponseFormat" -> "Mp3"
      [] T = "SpeechVoice" -> "Echo"
      [] T = "SpeechModel" -> "Tts1"
      [] T = "WhisperRequestType" -> "Transcription"
      [] T \in {"WhisperResponseFormat", "TranscriptionResponseFormat"} -> "Json"
      [] T \in {"WhisperModel", "TranscriptionModel"} -> "Whisper1"
      [] T = "EmbeddingModel" -> "TextEmbeddingAda002"
      [] T = "EmbeddingEncodingFormat" -> "FLOAT"

\* a build() that would also reject a number outside 1..10
build_validating(T, b) ==
    LET required ==
            [ChatCompletionRequest |-> "messages", CreateImageRequest |-> "prompt",
             SpeechRequest |-> "input", WhisperRequest |-> "file",
             TranscriptionRequest |-> "file", EmbeddingRequest |-> "input"][T]
    IN  IF is_none(b[required])
        THEN Err("build", <<required, " must be initialized">>)
        ELSE IF \E f \in DOMAIN b \cap {"temperature", "n", "max_tokens", "speed"} :
                    is_some(b[f]) /\ unwrap(b[f]) \notin 1..10
        THEN Err("build", <<"out of range">>)
        ELSE Ok(T, [b EXCEPT ![required] = unwrap(b[required])])

\* a builder is the record of its setters' fields, each None until supplied;
\* build() takes the required field, the #[builder(default)] of every other
\* field never supplied, and the Option fields as supplied (strip_option)
build(T, b) ==
    LET required ==
            CASE T = "ChatCompletionRequest" -> "messages"
              [] T = "CreateImageRequest" -> "prompt"
              [] T = "SpeechRequest" -> "input"
              [] T = "WhisperRequest" -> "file"
              [] T = "TranscriptionRequest" -> "file"
              [] T = "EmbeddingRequest" -> "input"
        default ==
            CASE T = "ChatCompletionRequest" ->
                    [model |-> Default("ChatCompleteModel"), tools |-> << >>]
              [] T = "CreateImageRequest" -> [model |-> Default("ImageModel")]
              [] T = "SpeechRequest" ->
                    [model |-> Default("SpeechModel"), voice |-> Default("SpeechVoice"),
                     response_format |-> Default("SpeechResponseFormat")]
              [] T = "WhisperRequest" ->
                    [model |-> Default("WhisperModel"),
                     response_format |-> Default("WhisperResponseFormat"),
                     request_type |-> Default("WhisperRequestType")]
              [] T = "TranscriptionRequest" ->
                    [model |-> Default("TranscriptionModel"),
                     response_format |-> Default("TranscriptionResponseFormat")]
              [] T = "EmbeddingRequest" -> [model |-> Default("EmbeddingModel")]
    IN  IF is_none(b[required])
        THEN Err("build", <<required, " must be initialized">>)
        ELSE Ok(T, [f \in DOMAIN b |->
                        IF f = required THEN unwrap(b[f])
                        ELSE IF f \in DOMAIN default THEN unwrap_or(b[f], default[f])
                        ELSE b[f]])

\* an AssistantMessage written without its name
AssistantMessage_Serialize_without_name(m) ==
    JObj(Opt("content", [i \in DOMAIN m.content |-> JStr(m.content[i])])
         \cup (IF m.tool_calls = << >> THEN {}
               ELSE {<<"tool_calls",
                       JArr([i \in DOMAIN m.tool_calls |-> ToolCalls_Serialize(m.tool_calls[i])])>>}))
\* AssistantMessage on its own: the fields without the role tag
AssistantMessage_Serialize(m) ==
    JObj(Opt("content", [i \in DOMAIN m.content |-> JStr(m.content[i])])
         \cup Opt("name", [i \in DOMAIN m.name |-> JStr(m.name[i])])
         \cup (IF m.tool_calls = << >> THEN {}
               ELSE {<<"tool_calls",
                       JArr([i \in DOMAIN m.tool_calls |-> ToolCalls_Serialize(m.tool_calls[i])])>>}))

\* #[derive(Serialize)] WhisperRequest: no field is skipped but request_type,
\* so a None is written as null; the file is an array of its bytes
WhisperRequest_Serialize(r) ==
    JObj({<<"file", JArr([i \in DOMAIN r.file |-> (<< >> :> Node("num", <<r.file[i]>>))])>>,
          <<"model", JStr(WhisperModel_to_string(r.model))>>,
          <<"language", IF is_none(r.language) THEN JNull ELSE JStr(unwrap(r.language))>>,
          <<"prompt", IF is_none(r.prompt) THEN JNull ELSE JStr(unwrap(r.prompt))>>,
          <<"response_format", JStr(WhisperResponseFormat_to_string(r.response_format))>>,
          <<"temperature", IF is_none(r.temperature) THEN JNull
                           ELSE JF32(unwrap(r.temperature))>>})
\* #[derive(Serialize)] TranscriptionRequest
TranscriptionRequest_Serialize(r) ==
    JObj({<<"file", JArr([i \in DOMAIN r.file |-> (<< >> :> Node("num", <<r.file[i]>>))])>>,
          <<"model", JStr(WhisperModel_to_string(r.model))>>,
          <<"language", IF is_none(r.language) THEN JNull ELSE JStr(unwrap(r.language))>>,
          <<"prompt", IF is_none(r.prompt) THEN JNull ELSE JStr(unwrap(r.prompt))>>,
          <<"response_format", JStr(WhisperResponseFormat_to_string(r.response_format))>>,
          <<"temperature", IF is_none(r.temperature) THEN JNull
                           ELSE JF32(unwrap(r.temperature))>>})

\* serde_json::to_value(v) for a value v of the type T
to_value(T, v) ==
    CASE T = "ChatCompletionRequest" -> ChatCompletionRequest_Serialize(v)
      [] T = "CreateImageRequest" -> CreateImageRequest_Serialize(v)
      [] T = "SpeechRequest" -> SpeechRequest_Serialize(v)
      [] T = "WhisperRequest" -> WhisperRequest_Serialize(v)
      [] T = "TranscriptionRequest" -> TranscriptionRequest_Serialize(v)
      [] T = "EmbeddingRequest" -> EmbeddingRequest_Serialize(v)
      [] T = "ChatCompletionMessage" -> ChatCompletionMessage_Serialize(v)
      [] T = "ToolChoice" -> ToolChoice_Serialize(v)
      [] T = "Tool" -> Tool_Serialize(v)
      [] T = "AssistantMessage" -> AssistantMessage_Serialize(v)
      [] T = "ToolCalls" -> ToolCalls_Serialize(v)
      [] T = "FunctionCall" -> FunctionCall_Serialize(v)
      [] T = "ToolType" -> JStr(ToolType_wire(v))
      [] T = "ChatCompleteModel" -> JStr(ChatCompleteModel_wire(v))
      [] T = "EmbeddingModel" -> JStr(EmbeddingModel_wire(v))
      [] T = "EmbeddingEncodingFormat" -> JStr(EmbeddingEncodingFormat_wire(v))
      [] T = "ChatResponseFormat" -> JStr(ChatResponseFormat_wire(v))
      [] T = "ImageModel" -> JStr(ImageModel_wire(v))
      [] T = "ImageQuality" -> JStr(ImageQuality_wire(v))
      [] T = "ImageSize" -> JStr(ImageSize_wire(v))
      [] T = "ImageStyle" -> JStr(ImageStyle_wire(v))
      [] T = "SpeechModel" -> JStr(SpeechModel_wire(v))
      [] T = "SpeechVoice" -> JStr(SpeechVoice_wire(v))
      [] T = "SpeechResponseFormat" -> JStr(SpeechResponseFormat_wire(v))
      [] T \in {"WhisperModel", "TranscriptionModel"} -> JStr(WhisperModel_to_string(v))
      [] T \in {"WhisperResponseFormat", "TranscriptionResponseFormat"} ->
            JStr(WhisperResponseFormat_to_string(v))

\* serde_json::from_value::<T>(d) for the types that derive Deserialize next
\* to Serialize: Some(the value), or None when d does not fit the type
from_value(T, d) ==
    LET OptAt(p) == IF HasKind(d, p, "str") THEN Some(d[p].v) ELSE None
        FunctionCallAt(p) ==
            [name |-> d[p \o <<"name">>].v, arguments |-> d[p \o <<"arguments">>].v]
        ToolCallsAt(p) ==
            [id |-> d[p \o <<"id">>].v, type |-> "Function",
             function |-> FunctionCallAt(p \o <<"function">>)]
        n == Cardinality(Children(d, <<"tool_calls">>))
    IN  CASE T = "FunctionCall" ->
                IF /\ HasKind(d, << >>, "obj")
                   /\ HasKind(d, <<"name">>, "str")
                   /\ HasKind(d, <<"arguments">>, "str")
                THEN Some(FunctionCallAt(<< >>)) ELSE None
          [] T = "ToolCalls" ->
                IF ToolCalls_Valid(d, << >>) THEN Some(ToolCallsAt(<< >>)) ELSE None
          [] T = "AssistantMessage" ->
                IF AssistantMessage_Valid(d, << >>)
                THEN Some([content |-> OptAt(<<"content">>),
                           name |-> OptAt(<<"name">>),
                           tool_calls |->
                                [i \in 1..n |->
                                    ToolCallsAt(<<"tool_calls", ToString(i - 1)>>)]])
                ELSE None
          [] T = "ToolType" ->
                IF HasKind(d, << >>, "str") /\ d[<< >>].v = <<"function">>
                THEN Some("Function") ELSE None
          [] T = "ChatCompleteModel" ->
                IF /\ HasKind(d, << >>, "str")
                   /\ \E m \in ChatCompleteModels : ChatCompleteModel_wire(m) = d[<< >>].v
                THEN Some(CHOOSE m \in ChatCompleteModels :
                            ChatCompleteModel_wire(m) = d[<< >>].v)
                ELSE None
          [] T = "EmbeddingModel" ->
                IF HasKind(d, << >>, "str") /\ d[<< >>].v = <<"text-embedding-ada-002">>
                THEN Some("TextEmbeddingAda002") ELSE None

-----------------------------------------------------------------------------
(* Inputs.                                                                 *)

Tokens == {<< >>, <<"sk-test">>}
BaseUrls == {<<"https://api.openai.com/v1">>, <<"http://localhost:8080/v1">>}
Envs == {None, Some(<<"sk-env">>)}
Files == {<< >>, <<"ID3", "\\xFF">>}
Languages == {None, Some(<< >>), Some(<<"en">>)}
Prompts == {None, Some(<<"hint">>)}
Temperatures == {None, Some(2)}

\* get_simple_completion_request
SimpleMessages ==
    <<new_system(<<"I'm Q-bot.">>, <<"Q-bot">>), new_user(<<"HI!">>, <<"zheng">>)>>
\* get_simple_completion_request, get_tool_completion_request, and a request
\* with an unnamed user message and a tool choice
ChatInputs ==
    {ChatCompletionRequest_default(SimpleMessages),
     [ChatCompletionRequest_default(
        <<new_system(<<"I can choose the right function for you.">>, <<"Q-bot">>),
          new_user(<<"What is the weather like in ShangHai?">>, <<"zheng">>)>>) EXCEPT
        !.tools = <<new_function("GetWeatherArgs", <<"get_weather_forecast">>,
                                 <<"Get the weather forecast for a city.">>),
                    new_function("ExplainMoodArgs", <<"explain_mood">>,
                                 <<"Explain the meaning of the give mood.">>)>>],
     [ChatCompletionRequest_default(
        <<new_system(<<"I'm Q-bot.">>, <<"Q-bot">>), new_user(<<"HI!">>, << >>)>>) EXCEPT
        !.tool_choice = Some(ToolChoice_Auto)]}
ImageInputs ==
    {CreateImageRequest_new(<<"draw a cat">>),
     [CreateImageRequest_new(<<"draw a cat">>) EXCEPT
        !.style = Some("Vivid"), !.quality = Some("Hd")]}
SpeechInputs == {SpeechRequest_new(<<"The quick brown fox">>)}
EmbeddingInputs ==
    {EmbeddingRequest_new(EmbeddingInput_String(<<"hello">>)),
     EmbeddingRequest_new(EmbeddingInput_StringArray(<<<<"hello">>, <<"world">>>>))}
\* the audio requests the client is invoked with
WhisperInputs ==
    {[WhisperRequest_default(<<"ID3", "\\xFF">>) EXCEPT
        !.request_type = t, !.response_format = f, !.language = l]
     : t \in WhisperRequestTypes, f \in WhisperResponseFormats,
       l \in {None, Some(<<"en">>)}}
\* every audio request of the encoder harness
AllWhisperRequests ==
    {[WhisperRequest_default(file) EXCEPT
        !.request_type = t, !.response_format = f, !.language = l,
        !.prompt = p, !.temperature = tm]
     : file \in Files, t \in WhisperRequestTypes, f \in WhisperResponseFormats,
       l \in Languages, p \in Prompts, tm \in Temperatures}
AllTranscriptionRequests ==
    {[file |-> file, model |-> "Whisper1", language |-> l, prompt |-> p,
      response_format |-> f, temperature |-> tm]
     : file \in Files, f \in WhisperResponseFormats,
       l \in Languages, p \in Prompts, tm \in Temperatures}

\* the bodies the remote endpoint answers an operation with
RemoteBodies(op) ==
    CASE op = "chat_completion" ->
            {BodyBadRequest, BodyChatJson, BodyChatStop, BodyWhisperJson}
      [] op = "create_image" -> {BodyBadRequest, BodyImageJson, BodyWhisperJson}
      [] op = "speech" -> {BodyBadRequest, BodyAudio}
      [] op = "whisper" -> {BodyBadRequest, BodyTranscript, BodyWhisperJson}
      [] op = "embedding" -> {BodyBadRequest, BodyEmbeddingJson, BodyWhisperJson}
      [] OTHER -> {}

-----------------------------------------------------------------------------
(* The operations of the client, one action each up to its first await.    *)

\* the caller tasks
SlotIds == {"a"}

chat_completion(s, req) ==
    /\ calls[s].pc = "idle"
    /\ calls' = [calls EXCEPT ![s] =
            Start("chat_completion", req, FALSE,
                  prepare_request(sdk, ChatCompletionRequest_into_request(req)))]
    /\ UNCHANGED <<env, sdk, wreq, wout>>

create_image(s, req) ==
    /\ calls[s].pc = "idle"
    /\ calls' = [calls EXCEPT ![s] =
            Start("create_image", req, FALSE,
                  prepare_request(sdk, CreateImageRequest_into_request(req)))]
    /\ UNCHANGED <<env, sdk, wreq, wout>>

speech(s, req) ==
    /\ calls[s].pc = "idle"
    /\ calls' = [calls EXCEPT ![s] =
            Start("speech", req, FALSE,
                  prepare_request(sdk, SpeechRequest_into_request(req)))]
    /\ UNCHANGED <<env, sdk, wreq, wout>>

whisper(s, req) ==
    /\ calls[s].pc = "idle"
    /\ calls' = [calls EXCEPT ![s] =
            Start("whisper", req, whisper_is_json(req),
                  prepare_request(sdk, WhisperRequest_into_request(req)))]
    /\ UNCHANGED <<env, sdk, wreq, wout>>

embedding(s, req) ==
    /\ calls[s].pc = "idle"
    /\ calls' = [calls EXCEPT ![s] =
            Start("embedding", req, FALSE,
                  prepare_request(sdk, EmbeddingRequest_into_request(req)))]
    /\ UNCHANGED <<env, sdk, wreq, wout>>

(* send_and_log and the awaits of an operation.                            *)

\* self.send().await returns a response: its status is classified; an error
\* status goes on to res.text().await, any other hands the response back
Respond(s, status, body) ==
    /\ calls[s].pc = "send"
    /\ calls' = [calls EXCEPT ![s] =
            [@ EXCEPT !.status = status, !.body = body,
                      !.pc = IF IsFailure(status) THEN "err_text" ELSE "body"]]
    /\ UNCHANGED <<env, sdk, wreq, wout>>

\* self.send().await? fails: connection or TLS failure
SendError(s) ==
    /\ calls[s].pc = "send"
    /\ calls' = [calls EXCEPT ![s] = on_send_error(@)]
    /\ UNCHANGED <<env, sdk, wreq, wout>>

\* one timer shared by the client: it ends every pending operation at once
Timeout_shared(s) ==
    /\ calls[s].pc \in {"send", "err_text", "body"}
    /\ is_some(calls[s].sent[1].timeout)
    /\ calls' = [t \in DOMAIN calls |->
            IF calls[t].pc \in {"send", "err_text", "body"}
            THEN [calls[t] EXCEPT !.pc = "done", !.ret = Err("transport", <<"timeout">>)]
            ELSE calls[t]]
    /\ UNCHANGED <<env, sdk, wreq, wout>>

\* the request's timeout elapses while the operation awaits the transport
Timeout(s) ==
    /\ calls[s].pc \in {"send", "err_text", "body"}
    /\ is_some(calls[s].sent[1].timeout)
    /\ calls' = [calls EXCEPT ![s] =
            [@ EXCEPT !.pc = "done", !.ret = Err("transport", <<"timeout">>)]]
    /\ UNCHANGED <<env, sdk, wreq, wout>>

\* res.text().await? of an error response completes: the error is returned
ErrTextRead(s) ==
    /\ calls[s].pc = "err_text"
    /\ calls' = [calls EXCEPT ![s] =
            [@ EXCEPT !.pc = "done",
                      !.ret = Err("remote", ApiFailed(Text(calls[s].body)))]]
    /\ UNCHANGED <<env, sdk, wreq, wout>>

\* the body of the response handed back arrives and is decoded
BodyRead(s) ==
    /\ calls[s].pc = "body"
    /\ calls' = [calls EXCEPT ![s] = Finish(@)]
    /\ UNCHANGED <<env, sdk, wreq, wout>>

\* a failed read of an error response's body reported as a remote error
BodyError_as_remote(s) ==
    /\ calls[s].pc \in {"err_text", "body"}
    /\ calls' = [calls EXCEPT ![s] =
            [@ EXCEPT !.pc = "done",
                      !.ret = IF calls[s].pc = "err_text"
                              THEN Err("remote", ApiFailed(<< >>))
                              ELSE Err("transport", <<"body">>)]]
    /\ UNCHANGED <<env, sdk, wreq, wout>>

\* reading the body fails: the connection breaks before the body is complete
BodyError(s) ==
    /\ calls[s].pc \in {"err_text", "body"}
    /\ calls' = [calls EXCEPT ![s] =
            [@ EXCEPT !.pc = "done", !.ret = Err("transport", <<"body">>)]]
    /\ UNCHANGED <<env, sdk, wreq, wout>>

\* the caller takes the result; the task may invoke another operation
Return(s) ==
    /\ calls[s].pc = "done"
    /\ calls' = [calls EXCEPT ![s] = Idle]
    /\ UNCHANGED <<env, sdk, wreq, wout>>

NoReq == [kind |-> "none", req |-> << >>]

Init ==
    /\ env \in Envs
    /\ sdk \in {SDK} \cup {New(b, t) : b \in BaseUrls, t \in Tokens}
    /\ calls = [s \in SlotIds |-> Idle]
    /\ wreq = NoReq
    /\ wout = None

Next ==
    \/ \E s \in SlotIds, req \in ChatInputs : chat_completion(s, req)
    \/ \E s \in SlotIds, req \in ImageInputs : create_image(s, req)
    \/ \E s \in SlotIds, req \in SpeechInputs : speech(s, req)
    \/ \E s \in SlotIds, req \in WhisperInputs : whisper(s, req)
    \/ \E s \in SlotIds, req \in EmbeddingInputs : embedding(s, req)
    \/ \E s \in SlotIds, status \in Statuses :
        \E body \in RemoteBodies(calls[s].op) : Respond(s, status, body)
    \/ \E s \in SlotIds : SendError(s)
    \/ \E s \in SlotIds : Timeout(s)
    \/ \E s \in SlotIds : ErrTextRead(s)
    \/ \E s \in SlotIds : BodyRead(s)
    \/ \E s \in SlotIds : BodyError(s)
    \/ \E s \in SlotIds : Return(s)

Spec == Init /\ [][Next]_vars

\* the transport's timer runs: a pending request's timeout does elapse
LiveSpec == Init /\ [][Next]_vars /\ \A s \in SlotIds : WF_vars(Timeout(s))

-----------------------------------------------------------------------------
(* Two caller tasks on one client, their operations interleaved.           *)

ConcInit ==
    /\ env = None
    /\ sdk \in {New(<<"http://localhost:8080/v1">>, << >>),
                New(<<"https://api.openai.com/v1">>, <<"sk-test">>)}
    /\ calls = [s \in {"a", "b"} |-> Idle]
    /\ wreq = NoReq
    /\ wout = None

ConcNext ==
    LET Tasks == DOMAIN calls
        Whispers == {[WhisperRequest_default(<<"ID3", "\\xFF">>) EXCEPT !.response_format = f]
                        : f \in {"Json", "Text"}}
    IN  \/ \E s \in Tasks :
                chat_completion(s, ChatCompletionRequest_default(SimpleMessages))
        \/ \E s \in Tasks : create_image(s, CreateImageRequest_new(<<"draw a cat">>))
        \/ \E s \in Tasks, req \in SpeechInputs : speech(s, req)
        \/ \E s \in Tasks, req \in Whispers : whisper(s, req)
        \/ \E s \in Tasks :
                embedding(s, EmbeddingRequest_new(EmbeddingInput_String(<<"hello">>)))
        \/ \E s \in Tasks, status \in {200, 500} :
            \E body \in RemoteBodies(calls[s].op) : Respond(s, status, body)
        \/ \E s \in Tasks : SendError(s)
        \/ \E s \in Tasks : Timeout(s)
        \/ \E s \in Tasks : ErrTextRead(s)
        \/ \E s \in Tasks : BodyRead(s)
        \/ \E s \in Tasks : BodyError(s)
        \/ \E s \in Tasks : Return(s)

ConcSpec == ConcInit /\ [][ConcNext]_vars

-----------------------------------------------------------------------------
(* The encoder harness: into_form applied to every audio request.          *)

EncodeWhisper ==
    /\ wreq.kind = "whisper"
    /\ wout = None
    /\ wout' = Some(WhisperRequest_into_form(wreq.req))
    /\ UNCHANGED <<env, sdk, calls, wreq>>

EncodeTranscription ==
    /\ wreq.kind = "transcription"
    /\ wout = None
    /\ wout' = Some(TranscriptionRequest_into_form(wreq.req))
    /\ UNCHANGED <<env, sdk, calls, wreq>>

FormInit ==
    /\ env = None
    /\ sdk = SDK
    /\ calls = [s \in SlotIds |-> Idle]
    /\ wreq \in {[kind |-> "whisper", req |-> r] : r \in AllWhisperRequests}
           \cup {[kind |-> "transcription", req |-> r] : r \in AllTranscriptionRequests}
    /\ wout = None

FormNext == EncodeWhisper \/ EncodeTranscription

FormSpec == FormInit /\ [][FormNext]_vars

-----------------------------------------------------------------------------
(* The value harness: a value is constructed (by a builder, a constructor  *)
(* or as written), serialized with to_value and, for the types that derive *)
(* Deserialize, read back with from_value.  wout holds what was produced   *)
(* so far: <<construction result, JSON document, Option of value read>>,   *)
(* and wreq is the pair <<type or constructor, its input>>.                *)

Construct ==
    /\ wout = << >>
    /\ wout' =
        <<CASE wreq[1] \in {"ChatCompletionRequest", "CreateImageRequest",
                              "SpeechRequest", "WhisperRequest",
                              "TranscriptionRequest", "EmbeddingRequest"} ->
                    build(wreq[1], wreq[2])
            [] wreq[1] = "new_system" ->
                    Ok("ChatCompletionMessage", new_system(wreq[2].content, wreq[2].name))
            [] wreq[1] = "new_user" ->
                    Ok("ChatCompletionMessage", new_user(wreq[2].content, wreq[2].name))
            [] wreq[1] = "new_function" ->
                    Ok("Tool", new_function(wreq[2].T, wreq[2].name, wreq[2].des))
            [] wreq[1] = "Default" -> Ok(wreq[2], Default(wreq[2]))
            [] OTHER -> Ok(wreq[1], wreq[2])>>
    /\ UNCHANGED <<env, sdk, calls, wreq>>

ToValue ==
    /\ Len(wout) = 1
    /\ wout[1].kind = "ok"
    /\ wout' = Append(wout, to_value(wout[1].ty, wout[1].val))
    /\ UNCHANGED <<env, sdk, calls, wreq>>

FromValue ==
    /\ Len(wout) = 2
    /\ wout[1].ty \in {"AssistantMessage", "ToolCalls", "FunctionCall", "ToolType",
                       "ChatCompleteModel", "EmbeddingModel"}
    /\ wout' = Append(wout, from_value(wout[1].ty, wout[2]))
    /\ UNCHANGED <<env, sdk, calls, wreq>>

JsonInit ==
    LET Tools1 == <<new_function("GetWeatherArgs", <<"get_weather_forecast">>,
                                 <<"Get the weather forecast for a city.">>),
                    new_function("ExplainMoodArgs", <<"explain_mood">>,
                                 <<"Explain the meaning of the give mood.">>)>>
        Tools2 == <<Tools1[2], Tools1[1]>>
        Call1 == [id |-> <<"call_1">>, type |-> "Function",
                  function |-> [name |-> <<"get_weather_forecast">>,
                                arguments |-> <<"{\"city\":\"Boston\"}">>]]
        Call2 == [id |-> <<"call_2">>, type |-> "Function",
                  function |-> [name |-> <<"explain_mood">>, arguments |-> << >>]]
        ChatBuilders ==
            [messages : {None, Some(<< >>), Some(SimpleMessages)},
             model : {None, Some("GPT4Turbo")},
             frequency_penalty : {None}, max_tokens : {None, Some(0)},
             n : {None, Some(0)}, presence_penalty : {None},
             response_format : {None}, seed : {None}, stop : {None},
             stream : {None}, temperature : {None, Some(-5), Some(300)},
             top_p : {None}, tools : {None, Some(Tools1), Some(Tools2)},
             tool_choice : {None, Some(ToolChoice_Auto),
                            Some(ToolChoice_Function(<<"my_function">>))},
             user : {None}]
        ImageBuilders ==
            [prompt : {None, Some(<<"draw a picture of a chicken eating rice">>)},
             model : {None}, n : {None, Some(0), Some(11)},
             quality : {None, Some("Hd")}, response_format : {None},
             size : {None}, style : {None, Some("Natural")}, user : {None}]
        SpeechBuilders ==
            [model : {None}, input : {None, Some(<<"The quick brown fox">>)},
             voice : {None, Some("Nova")}, response_format : {None},
             speed : {None, Some(5), Some(1000)}]
        WhisperBuilders ==
            [file : {None, Some(<<"ID3", "\\xFF">>)}, model : {None},
             language : {None, Some(<<"en">>)}, prompt : {None},
             response_format : {None, Some("VerboseJson")},
             temperature : {None, Some(25)},
             request_type : {None, Some("Translation")}]
        TranscriptionBuilders ==
            [file : {None, Some(<<"ID3", "\\xFF">>)}, model : {None},
             language : {None, Some(<<"en">>)}, prompt : {None},
             response_format : {None}, temperature : {None, Some(25)}]
        EmbeddingBuilders ==
            [input : {None, Some(EmbeddingInput_String(<<"hello">>)),
                      Some(EmbeddingInput_StringArray(<<<<"hello">>, <<"world">>>>))},
             model : {None}, encoding_format : {None, Some("BASE64")},
             user : {None, Some(<<"u1">>)}]
        Names == {<< >>, <<"zheng">>, <<"Q-bot">>}
        Contents == {<< >>, <<"HI!">>}
    IN
    /\ env = None
    /\ sdk = SDK
    /\ calls = [s \in SlotIds |-> Idle]
    /\ wout = << >>
    /\ wreq \in
            {<<"ChatCompletionRequest", b>> : b \in ChatBuilders}
       \cup {<<"CreateImageRequest", b>> : b \in ImageBuilders}
       \cup {<<"SpeechRequest", b>> : b \in SpeechBuilders}
       \cup {<<"WhisperRequest", b>> : b \in WhisperBuilders}
       \cup {<<"TranscriptionRequest", b>> : b \in TranscriptionBuilders}
       \cup {<<"EmbeddingRequest", b>> : b \in EmbeddingBuilders}
       \cup {<<k, [content |-> c, name |-> n]>>
                : k \in {"new_system", "new_user"}, c \in Contents, n \in Names}
       \cup {<<"new_function", [T |-> t, name |-> n, des |-> d]>>
                : t \in {"GetWeatherArgs", "ExplainMoodArgs"},
                  n \in {<<"get_weather_forecast">>, << >>},
                  d \in {<<"Get the weather forecast for a city.">>}}
       \cup {<<"ToolChoice", c>>
                : c \in {ToolChoice_None, ToolChoice_Auto}
                        \cup {ToolChoice_Function(n) : n \in Names}}
       \cup {<<"AssistantMessage", [content |-> c, name |-> n, tool_calls |-> t]>>
                : c \in {None, Some(<< >>), Some(<<"HI!">>)},
                  n \in {None, Some(<<"Q-bot">>)},
                  t \in {<< >>, <<Call1>>, <<Call2, Call1>>}}
       \cup {<<"ChatCompletionMessage",
               [variant |-> "Assistant", content |-> c, name |-> n, tool_calls |-> t,
                tool_call_id |-> << >>]>>
                : c \in {None, Some(<<"HI!">>)}, n \in {None, Some(<<"Q-bot">>)},
                  t \in {<< >>, <<Call1>>, <<Call2, Call1>>}}
       \cup {<<"ChatCompletionMessage",
               [variant |-> "Tool", content |-> Some(c), name |-> None,
                tool_calls |-> << >>, tool_call_id |-> id]>>
                : c \in Contents, id \in {<<"call_1">>, <<"call_2">>}}
       \cup {<<"ToolCalls", c>> : c \in {Call1, Call2}}
       \cup {<<"FunctionCall", c.function>> : c \in {Call1, Call2}}
       \cup {<<"ToolType", "Function">>}
       \cup {<<"ChatCompleteModel", m>> : m \in ChatCompleteModels}
       \cup {<<"EmbeddingModel", "TextEmbeddingAda002">>}
       \cup {<<"Default", T>>
                : T \in {"ChatCompleteModel", "ChatResponseFormat", "ImageModel",
                         "ImageQuality", "ImageSize", "ImageStyle", "SpeechVoice",
                         "SpeechModel", "SpeechResponseFormat", "WhisperModel",
                         "WhisperResponseFormat", "TranscriptionModel",
                         "TranscriptionResponseFormat", "EmbeddingModel",
                         "EmbeddingEncodingFormat"}}

JsonNext == Construct \/ ToValue \/ FromValue

JsonSpec == JsonInit /\ [][JsonNext]_vars

-----------------------------------------------------------------------------
(* Properties.                                                             *)

\* an invocation that has ended
Done(s) == calls[s].pc = "done"
\* an invocation in progress or ended
Invoked(s) == calls[s].pc # "idle"
\* the response of invocation s carries a 4xx or 5xx status
ErrorStatus(s) == 400 <= calls[s].status /\ calls[s].status <= 599
\* the path suffix the specification fixes for an operation
PathSuffix(c) ==
    CASE c.op = "chat_completion" -> <<"/chat/completions">>
      [] c.op = "create_image" -> <<"/images/generations">>
      [] c.op = "speech" -> <<"/audio/speech">>
      [] c.op = "embedding" -> <<"/embeddings">>
      [] c.op = "whisper" ->
            IF c.arg.request_type = "Translation" THEN <<"/audio/translations">>
            ELSE <<"/audio/transcriptions">>
\* the response type an operation decodes JSON into
ResponseType(op) ==
    CASE op = "chat_completion" -> "ChatCompletionResponse"
      [] op = "create_image" -> "CreateImageResponse"
      [] op = "embedding" -> "EmbeddingResponse"
      [] op = "whisper" -> "WhisperResponse"

(* C1, as stated: every operation answered with a 4xx or 5xx status fails   *)
(* with an error that contains the full body text, returns no value and    *)
(* never hands the body to a decoder of the success path.                  *)
C1_ErrorCarriesBody ==
    \A s \in SlotIds : Done(s) /\ ErrorStatus(s) =>
        /\ calls[s].ret.kind = "err"
        /\ Contains(calls[s].ret.msg, Text(calls[s].body))
        /\ calls[s].ret.val = << >>
        /\ calls[s].decoder = "none"

(* C1, amended: every operation answered with a 4xx or 5xx status fails,   *)
(* returns no value and never hands the body to a decoder of the success   *)
(* path; its error is the remote error, which contains the full body text, *)
(* or, when the body could not be read (read failure, timeout), the        *)
(* transport error.                                                        *)
C1_ErrorStatusFails ==
    \A s \in SlotIds : Done(s) /\ ErrorStatus(s) =>
        /\ calls[s].ret.kind = "err"
        /\ calls[s].ret.val = << >>
        /\ calls[s].decoder = "none"
        /\ calls[s].ret.err \in {"remote", "transport"}
        /\ calls[s].ret.err = "remote" =>
                Contains(calls[s].ret.msg, Text(calls[s].body))
        /\ calls[s].ret.err = "transport" =>
                calls[s].ret.msg \in {<<"timeout">>, <<"body">>}
C1_Witness ==
    \E s \in SlotIds :
        /\ Done(s) /\ calls[s].status = 400 /\ calls[s].body = BodyBadRequest
        /\ calls[s].ret = Err("remote", <<"API failed: ", "bad request">>)

(* C2: every operation answered with a status outside 2xx (1xx and 3xx     *)
(* included) fails without decoding: the body is decoded into a typed      *)
(* response only when the status is 2xx.                                   *)
C2_NonSuccessFails ==
    \A s \in SlotIds : Done(s) /\ calls[s].status # 0 =>
        /\ ~is_success(calls[s].status) => calls[s].ret.kind = "err"
        /\ calls[s].decoder # "none" => is_success(calls[s].status)

(* C3: every invocation hands exactly one request to the transport, a      *)
(* POST, whatever its outcome: no failure is followed by a second send.    *)
C3_OneRequestPerCall ==
    \A s \in SlotIds : Invoked(s) =>
        /\ Len(calls[s].sent) = 1
        /\ calls[s].sent[1].method = "POST"
C3_Witness ==
    \E s \in SlotIds :
        /\ Done(s) /\ calls[s].ret = Err("transport", <<"connect">>)
        /\ Len(calls[s].sent) = 1

(* C4: the request sent carries a bearer authorization header, built from  *)
(* the client's token, if and only if the client's token is non-empty.     *)
C4_BearerIffToken ==
    \A s \in SlotIds : Invoked(s) =>
        /\ is_some(calls[s].sent[1].auth) <=> sdk.token # << >>
        /\ is_some(calls[s].sent[1].auth) =>
                unwrap(calls[s].sent[1].auth) = <<"Bearer ">> \o sdk.token
C4_Witness ==
    \E s \in SlotIds :
        /\ Invoked(s) /\ sdk.token = <<"sk-test">>
        /\ calls[s].sent[1].auth = Some(<<"Bearer ", "sk-test">>)

(* C5: every request sent carries the timeout of 30 seconds, whatever the  *)
(* operation, the request and the token.                                   *)
C5_TimeoutThirty ==
    \A s \in SlotIds : Invoked(s) => calls[s].sent[1].timeout = Some(30)
C5_Witness ==
    \E s \in SlotIds :
        /\ Invoked(s) /\ calls[s].op = "speech" /\ sdk.token = << >>
        /\ calls[s].sent[1].timeout = Some(30)

(* C6: every invocation eventually ends, with a result or an error; one    *)
(* the remote endpoint never answered ends with a transport error.         *)
C6_EveryCallEnds ==
    /\ \A s \in SlotIds : (calls[s].pc # "idle") ~> (calls[s].pc = "done")
    /\ [](\A s \in SlotIds : calls[s].pc = "done" /\ calls[s].status = 0 =>
            calls[s].ret.kind = "err" /\ calls[s].ret.err = "transport")
C6_Witness ==
    \E s \in SlotIds :
        /\ Done(s) /\ calls[s].status = 0
        /\ calls[s].ret = Err("transport", <<"timeout">>)

(* C7: the URL a request is posted to is the base_url of the client it was *)
(* invoked on followed by the operation's path suffix.                     *)
C7_UrlFromOwnBase ==
    \A s \in SlotIds : Invoked(s) =>
        calls[s].sent[1].url = sdk.base_url \o PathSuffix(calls[s])

(* C8: an operation that returns a value decoded the body as its kind      *)
(* prescribes: chat_completion, create_image and embedding as JSON into    *)
(* their response type, speech as the raw bytes, whisper as JSON exactly   *)
(* when the request's response_format is Json and as the raw text          *)
(* otherwise; whisper's mode is the one the request fixed when invoked.    *)
C8_DecodingByOperation ==
    \A s \in SlotIds :
        LET c == calls[s] IN
        /\ Invoked(s) /\ c.op = "whisper" =>
                c.is_json = (c.arg.response_format = "Json")
        /\ Done(s) /\ c.ret.kind = "ok" =>
            CASE c.op \in {"chat_completion", "create_image", "embedding"} ->
                    /\ c.decoder = "json"
                    /\ c.ret.ty = ResponseType(c.op)
                    /\ Some(c.ret.val) = FromJson(ResponseType(c.op), c.body)
              [] c.op = "speech" ->
                    c.decoder = "bytes" /\ c.ret.val = c.body
              [] c.op = "whisper" ->
                    IF c.arg.response_format = "Json"
                    THEN /\ c.decoder = "json"
                         /\ Some(c.ret.val) = FromJson("WhisperResponse", c.body)
                    ELSE /\ c.decoder = "text"
                         /\ c.ret.val = JObj({<<"text", JStr(Text(c.body))>>})
C8_Witness ==
    \E s \in SlotIds :
        /\ Done(s) /\ calls[s].op = "whisper"
        /\ calls[s].arg.response_format = "VerboseJson"
        /\ calls[s].body = BodyWhisperJson
        /\ calls[s].ret.kind = "ok"
        /\ calls[s].ret.val[<<"text">>].v = BodyWhisperJson

(* C9: the multipart form encoded from a Translation request has no part   *)
(* named language, whether or not the request's language is set.           *)
C9_TranslationNoLanguage ==
    wreq.kind = "whisper" /\ wreq.req.request_type = "Translation" /\ is_some(wout) =>
        PartsNamed(unwrap(wout), "language") = {}
C9_Witness ==
    /\ wreq.kind = "whisper" /\ wreq.req.request_type = "Translation"
    /\ wreq.req.language = Some(<<"en">>)
    /\ is_some(wout)
    /\ PartsNamed(unwrap(wout), "language") = {}

(* C10: the multipart form encoded from a transcription request has        *)
(* exactly one part named language, whose value is the empty string when   *)
(* the language is unset and the set value otherwise.                      *)
C10_TranscriptionOneLanguage ==
    /\ \/ wreq.kind = "transcription"
       \/ wreq.kind = "whisper" /\ wreq.req.request_type = "Transcription"
    /\ is_some(wout)
    => /\ Cardinality(PartsNamed(unwrap(wout), "language")) = 1
       /\ \A i \in PartsNamed(unwrap(wout), "language") :
            unwrap(wout)[i].value = unwrap_or_default(wreq.req.language)

(* C11, as stated: for every request type, a request built with only its   *)
(* required field serializes to a JSON object with no key for an unset     *)
(* optional field and no null value; the minimal chat request is exactly   *)
(* {model: "gpt-3.5-turbo-1106", messages: the supplied messages in order} *)
(* and the minimal image request exactly {prompt, model}.                  *)
C11_MinimalHasNoNull ==
    LET b == wreq[2]
        val == wout[1].val
        doc == wout[2]
        optional ==
            CASE wreq[1] = "ChatCompletionRequest" ->
                    {"frequency_penalty", "max_tokens", "n", "presence_penalty",
                     "response_format", "seed", "stop", "stream", "temperature",
                     "top_p", "tools", "tool_choice", "user"}
              [] wreq[1] = "CreateImageRequest" ->
                    {"n", "quality", "response_format", "size", "style", "user"}
              [] wreq[1] = "SpeechRequest" -> {"speed"}
              [] wreq[1] = "EmbeddingRequest" -> {"encoding_format", "user"}
              [] OTHER -> {"language", "prompt", "temperature"}
    IN  /\ wreq[1] \in {"ChatCompletionRequest", "CreateImageRequest",
                        "SpeechRequest", "EmbeddingRequest",
                        "WhisperRequest", "TranscriptionRequest"}
        /\ Len(wout) >= 2
        /\ Cardinality({f \in DOMAIN b : b[f] # None}) = 1
        => /\ HasKind(doc, << >>, "obj")
           /\ \A f \in optional : b[f] = None => ~Has(doc, <<f>>)
           /\ \A p \in DOMAIN doc : doc[p].k # "null"
           /\ wreq[1] = "ChatCompletionRequest" =>
                doc = JObj({<<"model", JStr(<<"gpt-3.5-turbo-1106">>)>>,
                            <<"messages",
                              JArr([i \in DOMAIN val.messages |->
                                    ChatCompletionMessage_Serialize(val.messages[i])])>>})
           /\ wreq[1] = "CreateImageRequest" =>
                doc = JObj({<<"prompt", JStr(val.prompt)>>,
                            <<"model", JStr(<<"dall-e-3">>)>>})

(* C11, amended: the above holds for the request types sent as JSON (chat, *)
(* image, speech, embedding); the JSON serialization of a WhisperRequest   *)
(* or TranscriptionRequest built with only its file has the keys language, *)
(* prompt and temperature, each with the value null, and no request_type.  *)
C11_MinimalJsonBodies ==
    LET b == wreq[2]
        val == wout[1].val
        doc == wout[2]
        optional ==
            CASE wreq[1] = "ChatCompletionRequest" ->
                    {"frequency_penalty", "max_tokens", "n", "presence_penalty",
                     "response_format", "seed", "stop", "stream", "temperature",
                     "top_p", "tools", "tool_choice", "user"}
              [] wreq[1] = "CreateImageRequest" ->
                    {"n", "quality", "response_format", "size", "style", "user"}
              [] wreq[1] = "SpeechRequest" -> {"speed"}
              [] wreq[1] = "EmbeddingRequest" -> {"encoding_format", "user"}
              [] OTHER -> {"language", "prompt", "temperature"}
    IN  /\ wreq[1] \in {"ChatCompletionRequest", "CreateImageRequest",
                        "SpeechRequest", "EmbeddingRequest",
                        "WhisperRequest", "TranscriptionRequest"}
        /\ Len(wout) >= 2
        /\ Cardinality({f \in DOMAIN b : b[f] # None}) = 1
        => /\ HasKind(doc, << >>, "obj")
           /\ wreq[1] \in {"ChatCompletionRequest", "CreateImageRequest",
                           "SpeechRequest", "EmbeddingRequest"} =>
                /\ \A f \in optional : b[f] = None => ~Has(doc, <<f>>)
                /\ \A p \in DOMAIN doc : doc[p].k # "null"
           /\ wreq[1] = "ChatCompletionRequest" =>
                doc = JObj({<<"model", JStr(<<"gpt-3.5-turbo-1106">>)>>,
                            <<"messages",
                              JArr([i \in DOMAIN val.messages |->
                                    ChatCompletionMessage_Serialize(val.messages[i])])>>})
           /\ wreq[1] = "CreateImageRequest" =>
                doc = JObj({<<"prompt", JStr(val.prompt)>>,
                            <<"model", JStr(<<"dall-e-3">>)>>})
           /\ wreq[1] \in {"WhisperRequest", "TranscriptionRequest"} =>
                /\ \A f \in {"language", "prompt", "temperature"} :
                        HasKind(doc, <<f>>, "null")
                /\ ~Has(doc, <<"request_type">>)
C11_Witness ==
    /\ wreq[1] = "ChatCompletionRequest"
    /\ Len(wout) >= 2
    /\ Cardinality({f \in DOMAIN wreq[2] : wreq[2][f] # None}) = 1
    /\ wout[1].val.messages = SimpleMessages
    /\ Children(wout[2], << >>) = {"model", "messages"}
    /\ Children(wout[2], <<"messages">>) = {"0", "1"}

C13_ChoiceRequestWire ==
    /\ wreq[1] = "ChatCompletionRequest" /\ Len(wout) >= 2
    /\ wreq[2].messages = Some(SimpleMessages)
    /\ wreq[2].tool_choice = Some(ToolChoice_Auto)
    /\ \A f \in DOMAIN wreq[2] \ {"messages", "tool_choice"} : wreq[2][f] = None
    => wout[2] = JObj({<<"tool_choice", JStr(<<"auto">>)>>,
                       <<"messages", JArr(<< >>)>>})

(* C14: a message made by new_system or new_user serializes without a name *)
(* key when the name is empty, with the name unchanged under the key name  *)
(* when it is not, and with the content unchanged in both cases.           *)
C14_EmptyNameOmitted ==
    wreq[1] \in {"new_system", "new_user"} /\ Len(wout) >= 2 =>
        /\ wreq[2].name = << >> => ~Has(wout[2], <<"name">>)
        /\ wreq[2].name # << >> => /\ Has(wout[2], <<"name">>)
                                   /\ wout[2][<<"name">>] = Node("str", wreq[2].name)
        /\ Has(wout[2], <<"content">>)
        /\ wout[2][<<"content">>] = Node("str", wreq[2].content)
C14_Witness ==
    /\ wreq[1] = "new_user" /\ Len(wout) >= 2
    /\ wreq[2].name = << >> /\ wreq[2].content = <<"HI!">>
    /\ Children(wout[2], << >>) = {"role", "content"}

(* C15: Tool::new_function::<T>(name, description) holds T::to_schema()    *)
(* from its construction on and serializes to {"type": "function",         *)
(* "function": {name, description, parameters: the schema}}; a chat        *)
(* request's tools are serialized in the order they were supplied.         *)
C15_ToolCarriesSchema ==
    /\ wreq[1] = "new_function" /\ Len(wout) >= 1 =>
            wout[1].val.function.parameters = to_schema(wreq[2].T)
    /\ wreq[1] = "new_function" /\ Len(wout) >= 2 =>
            wout[2] = JObj({<<"type", JStr(<<"function">>)>>,
                            <<"function",
                              JObj({<<"name", JStr(wreq[2].name)>>,
                                    <<"description", JStr(wreq[2].des)>>,
                                    <<"parameters", to_schema(wreq[2].T)>>})>>})
    /\ wreq[1] = "ChatCompletionRequest" /\ Len(wout) >= 2
        /\ is_some(wreq[2].tools) =>
            LET ts == unwrap(wreq[2].tools) IN
            /\ Children(wout[2], <<"tools">>) = {ToString(i - 1) : i \in 1..Len(ts)}
            /\ \A i \in 1..Len(ts) :
                LET p == <<"tools", ToString(i - 1)>> IN
                /\ wout[2][p \o <<"function", "name">>].v = ts[i].function.name
                /\ \A q \in DOMAIN ts[i].function.parameters :
                    wout[2][p \o <<"function", "parameters">> \o q]
                        = ts[i].function.parameters[q]
C15_Witness ==
    /\ wreq[1] = "ChatCompletionRequest" /\ Len(wout) >= 2
    /\ is_some(wreq[2].tools)
    /\ wout[2][<<"tools", "0", "function", "name">>].v = <<"explain_mood">>
    /\ wout[2][<<"tools", "1", "function", "parameters", "title">>].v
            = <<"GetWeatherArgs">>

(* C16: for every request builder, build() fails exactly when the required *)
(* field (chat messages, image prompt, speech input, whisper and           *)
(* transcription file, embedding input) was never supplied; every value of *)
(* a numeric field is accepted and kept as it was given.                   *)
C16_BuildFailsOnlyUnset ==
    LET T == wreq[1]
        b == wreq[2]
        numeric == {"temperature", "n", "max_tokens", "speed", "top_p", "seed",
                    "frequency_penalty", "presence_penalty", "dimensions"}
    IN  Len(wout) >= 1 =>
        /\ T \in {"ChatCompletionRequest"} =>
                (wout[1].kind = "err" <=> b.messages = None)
        /\ T \in {"CreateImageRequest"} =>
                (wout[1].kind = "err" <=> b.prompt = None)
        /\ T \in {"SpeechRequest", "EmbeddingRequest"} =>
                (wout[1].kind = "err" <=> b.input = None)
        /\ T \in {"WhisperRequest", "TranscriptionRequest"} =>
                (wout[1].kind = "err" <=> b.file = None)
        /\ T \in {"ChatCompletionRequest", "CreateImageRequest", "SpeechRequest",
                  "EmbeddingRequest", "WhisperRequest", "TranscriptionRequest"}
            /\ wout[1].kind = "ok" =>
                \A f \in DOMAIN b \cap numeric : wout[1].val[f] = b[f]
C16_Witness ==
    /\ wreq[1] = "ChatCompletionRequest" /\ Len(wout) >= 1
    /\ wreq[2].temperature = Some(300) /\ wreq[2].n = Some(0)
    /\ wout[1].kind = "ok" /\ wout[1].val.temperature = Some(300)

(* C17: a successful chat-completion body with one choice whose            *)
(* finish_reason is "tool_calls" decodes to a response with exactly one    *)
(* choice, finish_reason ToolCalls, no message content and exactly one     *)
(* tool call whose function name and arguments are those of the body; a    *)
(* body whose message has no tool_calls key decodes to an empty list.      *)
C17_ToolCallsDecoded ==
    \A s \in SlotIds :
        LET c == calls[s]
            m == <<"choices", "0", "message">>
            body == unwrap(ParseJson(c.body))
        IN  Done(s) /\ c.op = "chat_completion" /\ is_success(c.status)
                /\ c.decoder = "json" =>
            /\ c.body = BodyChatJson =>
                /\ c.ret.kind = "ok"
                /\ Children(c.ret.val, <<"choices">>) = {"0"}
                /\ c.ret.val[<<"choices", "0", "finish_reason">>].v = <<"tool_calls">>
                /\ ~Has(c.ret.val, m \o <<"content">>)
                /\ Children(c.ret.val, m \o <<"tool_calls">>) = {"0"}
                /\ \A f \in {"name", "arguments"} :
                    /\ Has(c.ret.val, m \o <<"tool_calls", "0", "function", f>>)
                    /\ c.ret.val[m \o <<"tool_calls", "0", "function", f>>]
                        = body[m \o <<"tool_calls", "0", "function", f>>]
            /\ c.body = BodyChatStop =>
                /\ ~Has(body, m \o <<"tool_calls">>)
                /\ c.ret.kind = "ok"
                /\ HasKind(c.ret.val, m \o <<"tool_calls">>, "arr")
                /\ Children(c.ret.val, m \o <<"tool_calls">>) = {}
C17_Witness ==
    \E s \in SlotIds :
        /\ Done(s) /\ calls[s].op = "chat_completion" /\ calls[s].status = 200
        /\ calls[s].body = BodyChatJson /\ calls[s].ret.kind = "ok"
        /\ calls[s].ret.val[<<"choices", "0", "message", "tool_calls", "0",
                              "function", "name">>].v = <<"get_weather_forecast">>

(* C18: an invocation returns nothing before it ends, and ends in exactly  *)
(* one of two outcomes: a typed result decoded in full (every field of the *)
(* response type that the body holds, and every required one), with no     *)
(* error beside it, or a single transport, remote or decode error with no  *)
(* value beside it.                                                        *)
C18_OneOutcome ==
    \A s \in SlotIds :
        LET c == calls[s]
            r == c.ret
            body == unwrap(ParseJson(c.body))
            Kept(K) == \A q \in K : body[q].k # "null" =>
                            Has(r.val, q) /\ r.val[q] = body[q]
        IN  /\ ~Done(s) => r = NoRet
            /\ Done(s) => r.kind \in {"ok", "err"}
            /\ Done(s) /\ r.kind = "err" =>
                /\ r.err \in {"transport", "remote", "decode"}
                /\ r.val = << >> /\ r.ty = ""
            /\ Done(s) /\ r.kind = "ok" =>
                /\ r.err = "" /\ r.msg = << >>
                /\ CASE c.op = "chat_completion" ->
                            /\ r.ty = "ChatCompletionResponse"
                            /\ ChatCompletionResponse_Valid(r.val)
                            /\ Kept({q \in DOMAIN body : ChatCompletionResponse_Known(q)})
                     [] c.op = "create_image" ->
                            /\ r.ty = "CreateImageResponse"
                            /\ CreateImageResponse_Valid(r.val)
                            /\ Kept({q \in DOMAIN body : CreateImageResponse_Known(q)})
                     [] c.op = "embedding" ->
                            /\ r.ty = "EmbeddingResponse"
                            /\ EmbeddingResponse_Valid(r.val)
                            /\ Kept({q \in DOMAIN body : EmbeddingResponse_Known(q)})
                     [] c.op = "whisper" ->
                            /\ r.ty = "WhisperResponse"
                            /\ WhisperResponse_Valid(r.val)
                            /\ DOMAIN r.val = {<< >>, <<"text">>}
                     [] c.op = "speech" ->
                            r.ty = "Bytes" /\ r.val = c.body
C18_Witness ==
    \E s \in SlotIds :
        /\ Done(s) /\ calls[s].op = "chat_completion" /\ calls[s].status = 200
        /\ calls[s].body = BodyWhisperJson /\ calls[s].decoder = "json"
        /\ calls[s].ret = Err("decode", << >>)

(* C20: a value of AssistantMessage, ToolCalls, FunctionCall, ToolType,    *)
(* ChatCompleteModel or EmbeddingModel that is encoded to JSON and decoded *)
(* back into its type is read back, with every field as it was set.       *)
C20_RoundTrip ==
    /\ wreq[1] \in {"AssistantMessage", "ToolCalls", "FunctionCall", "ToolType",
                    "ChatCompleteModel", "EmbeddingModel"}
        /\ Len(wout) = 3 =>
            /\ is_some(wout[3])
            /\ unwrap(wout[3]) = wreq[2]
    /\ wreq[1] = "AssistantMessage" /\ Len(wout) = 3 =>
            \A f \in {"content", "name", "tool_calls"} :
                unwrap(wout[3])[f] = wreq[2][f]
C20_Witness ==
    /\ wreq[1] = "AssistantMessage" /\ Len(wout) = 3
    /\ wreq[2].name = Some(<<"Q-bot">>) /\ wreq[2].content = None
    /\ Len(wreq[2].tool_calls) = 2
    /\ ~Has(wout[2], <<"content">>)
    /\ wout[3] = Some(wreq[2])

(* C19: with operations running concurrently on one client, in every       *)
(* interleaving, a step belongs to one call and leaves every other call    *)
(* and the client's base_url and token as they were; the request a call    *)
(* sent is the one encoded from its own request, and the outcome it        *)
(* returns is the one its own response (or its own transport failure)      *)
(* gives.                                                                  *)
C19_CallsIndependent ==
    [][LET Encoded(c) ==
                CASE c.op = "chat_completion" -> ChatCompletionRequest_into_request(c.arg)
                  [] c.op = "create_image" -> CreateImageRequest_into_request(c.arg)
                  [] c.op = "speech" -> SpeechRequest_into_request(c.arg)
                  [] c.op = "whisper" -> WhisperRequest_into_request(c.arg)
                  [] c.op = "embedding" -> EmbeddingRequest_into_request(c.arg)
            Outcomes(c) ==
                {Err("transport", <<"connect">>), Err("transport", <<"timeout">>),
                 Err("transport", <<"body">>)}
                \cup (IF c.status = 0 THEN {}
                      ELSE IF IsFailure(c.status)
                      THEN {Err("remote", ApiFailed(Text(c.body)))}
                      ELSE {Finish(c).ret})
       IN  /\ sdk' = sdk
           /\ Cardinality({s \in DOMAIN calls : calls'[s] # calls[s]}) <= 1
           /\ \A s \in DOMAIN calls :
                LET c == calls'[s] IN
                /\ c.pc # "idle" => c.sent = <<prepare_request(sdk, Encoded(c))>>
                /\ c.pc = "done" => c.ret \in Outcomes(c)
                /\ c.pc = "done" /\ c.decoder # "none" => c.ret = Finish(c).ret
                /\ calls[s].pc \notin {"idle", "done"} =>
                        c.arg = calls[s].arg /\ c.sent = calls[s].sent]_vars
C19_Witness ==
    /\ DOMAIN calls = {"a", "b"}
    /\ calls["a"].op = "chat_completion" /\ calls["a"].pc = "body"
    /\ calls["a"].body = BodyChatJson
    /\ calls["b"].op = "whisper" /\ calls["b"].pc = "done"
    /\ calls["b"].ret = Err("remote", ApiFailed(BodyBadRequest))

(* C21: the multipart form encoded from any audio request (transcription   *)
(* or translation) has exactly one part each named file, model,            *)
(* response_format, prompt and temperature: file holds the request's bytes *)
(* with filename "file" and MIME "audio/mp3", model and response_format    *)
(* the variant's wire string, prompt and temperature the empty string when *)
(* unset and the set value otherwise.                                      *)
C21_FormParts ==
    is_some(wout) =>
        LET form == unwrap(wout)
            req == wreq.req
            wire == [Json |-> <<"json">>, Text |-> <<"text">>, Srt |-> <<"srt">>,
                     VerboseJson |-> <<"verbose_json">>, Vtt |-> <<"vtt">>]
            The(name) == form[CHOOSE i \in PartsNamed(form, name) : TRUE]
        IN  /\ \A name \in {"file", "model", "response_format", "prompt", "temperature"} :
                    Cardinality(PartsNamed(form, name)) = 1
            /\ The("file").value = req.file
            /\ The("file").file_name = Some(<<"file">>)
            /\ The("file").mime = Some(<<"audio/mp3">>)
            /\ The("model").value = <<"whisper-1">>
            /\ The("response_format").value = wire[req.response_format]
            /\ The("prompt").value = IF req.prompt = None THEN << >> ELSE req.prompt[1]
            /\ The("temperature").value =
                    IF req.temperature = None THEN << >>
                    ELSE f32_to_string(req.temperature[1])
            /\ req.temperature # None => The("temperature").value # << >>
            /\ \A name \in {"model", "response_format", "prompt", "temperature"} :
                    The(name).file_name = None /\ The(name).mime = None
C21_Witness ==
    /\ wreq.kind = "whisper" /\ wreq.req.request_type = "Translation"
    /\ wreq.req.response_format = "VerboseJson"
    /\ wreq.req.prompt = None /\ wreq.req.temperature = Some(2)
    /\ is_some(wout)
    /\ \E i \in PartsNamed(unwrap(wout), "temperature") :
            unwrap(wout)[i].value = <<"0", ".", "2">>
    /\ \E i \in PartsNamed(unwrap(wout), "prompt") : unwrap(wout)[i].value = << >>

(* C22: a whisper request is posted to the path suffix /audio/translations *)
(* exactly when its request type is Translation and to                     *)
(* /audio/transcriptions otherwise; WhisperRequest::transcription and a    *)
(* builder whose request type is never set give the Transcription type;    *)
(* the request type is no part of the payload sent.                        *)
C22_WhisperPath ==
    /\ \A s \in SlotIds :
        LET c == calls[s]
            url == c.sent[1].url
            suffix == url[Len(url)]
        IN  Invoked(s) /\ c.op = "whisper" =>
            /\ suffix \in {"/audio/translations", "/audio/transcriptions"}
            /\ suffix = "/audio/translations" <=> c.arg.request_type = "Translation"
            /\ c.sent[1].enc = "multipart" /\ c.sent[1].json = << >>
            /\ \A i \in 1..Len(c.sent[1].form) :
                /\ c.sent[1].form[i].name \in {"file", "model", "response_format",
                                               "prompt", "temperature", "language"}
                /\ c.sent[1].form[i].value \notin
                        {<<"Translation">>, <<"Transcription">>,
                         <<"translation">>, <<"transcription">>}
    /\ \A file \in Files :
        /\ WhisperRequest_transcription(file).request_type = "Transcription"
        /\ WhisperRequest_translation(file).request_type = "Translation"
        /\ build("WhisperRequest",
                 [file |-> Some(file), model |-> None, language |-> None,
                  prompt |-> None, response_format |-> None, temperature |-> None,
                  request_type |-> None]).val.request_type = "Transcription"
C22_Witness ==
    \E s \in SlotIds :
        /\ Invoked(s) /\ calls[s].op = "whisper"
        /\ calls[s].arg.request_type = "Translation"
        /\ calls[s].sent[1].url[Len(calls[s].sent[1].url)] = "/audio/translations"
        /\ Len(calls[s].sent[1].form) = 5

C24_RoleTagged ==
    LET role == [System |-> "system", User |-> "user",
                 Assistant |-> "assistant", Tool |-> "tool"]
        Keys(m) ==
            {"role"}
            \cup (IF m.content # None THEN {"content"} ELSE {})
            \cup (IF m.name # None THEN {"name"} ELSE {})
            \cup (IF m.tool_calls # << >> THEN {"tool_calls"} ELSE {})
            \cup (IF m.variant = "Tool" THEN {"tool_call_id"} ELSE {})
        Tagged(m, doc, p) ==
            /\ HasKind(doc, p, "obj")
            /\ Has(doc, p \o <<"role">>)
            /\ doc[p \o <<"role">>] = Node("str", <<role[m.variant]>>)
            /\ Children(doc, p) = Keys(m)
            /\ m.content # None => doc[p \o <<"content">>] = Node("str", m.content[1])
            /\ m.name # None => doc[p \o <<"name">>] = Node("str", m.name[1])
            /\ m.variant = "Tool" =>
                    doc[p \o <<"tool_call_id">>] = Node("str", m.tool_call_id)
            /\ Cardinality(Children(doc, p \o <<"tool_calls">>)) = Len(m.tool_calls)
    IN  /\ Len(wout) >= 2 /\ wout[1].ty = "ChatCompletionMessage" =>
                Tagged(wout[1].val, wout[2], << >>)
        /\ Len(wout) >= 2 /\ wout[1].ty = "ChatCompletionRequest" =>
                \A i \in 1..Len(wout[1].val.messages) :
                    Tagged(wout[1].val.messages[i], wout[2],
                           <<"messages", ToString(i - 1)>>)
C24_Witness ==
    /\ wreq[1] = "ChatCompletionMessage" /\ Len(wout) >= 2
    /\ wreq[2].variant = "Assistant"
    /\ wreq[2].content = None /\ wreq[2].name = None /\ wreq[2].tool_calls = << >>
    /\ wout[2] = JObj({<<"role", JStr(<<"assistant">>)>>})

(* C25: within one operation the steps come in a fixed order (send, then   *)
(* the status, then the body, then the result) and the first failure ends  *)
(* the call: a call whose send failed has no status classified and nothing *)
(* decoded; a call that ends while reading the body of an error status     *)
(* fails with the transport error or with the remote error that holds the  *)
(* text read, never with a value; a decode error occurs only after a       *)
(* response with a non-error status was received and handed to a decoder.  *)
C25_FixedOrder ==
    [][\A s \in SlotIds :
        LET c == calls[s]
            d == calls'[s]
        IN  /\ c.pc = "idle" => d.pc \in {"idle", "send"}
            /\ c.pc = "send" => d.pc \in {"send", "err_text", "body", "done"}
            /\ c.pc = "err_text" => d.pc \in {"err_text", "done"}
            /\ c.pc = "body" => d.pc \in {"body", "done"}
            /\ c.pc = "send" /\ d.pc \in {"err_text", "body"} =>
                    d.pc = "err_text" <=> (400 <= d.status /\ d.status <= 599)
            /\ c.pc = "send" /\ d.pc = "done" =>
                    /\ d.ret.kind = "err" /\ d.ret.err = "transport"
                    /\ d.status = 0 /\ d.body = << >> /\ d.decoder = "none"
            /\ c.pc = "err_text" /\ d.pc = "done" =>
                    /\ d.decoder = "none"
                    /\ d.status = c.status /\ d.body = c.body
                    /\ \/ d.ret.kind = "err" /\ d.ret.err = "transport"
                       \/ d.ret = Err("remote", <<"API failed: ">> \o Text(c.body))
            /\ d.pc = "done" /\ d.ret.err = "decode" =>
                    /\ c.pc = "body" \/ c = d
                    /\ d.status # 0 /\ ~(400 <= d.status /\ d.status <= 599)
                    /\ d.decoder = "json"]_vars
C25_Witness ==
    \E s \in SlotIds :
        /\ Done(s) /\ calls[s].status = 500 /\ calls[s].body = BodyBadRequest
        /\ calls[s].ret = Err("transport", <<"body">>)
        /\ calls[s].decoder = "none"

====
